---- MODULE Spec2Model ----
(***************************************************************************)
(* Model of the command palette core: the CommandRegistry class            *)
(* (command-registry.ts), a keyed store of commands with plugin and group  *)
(* registration and subscriber notification.                               *)
(*                                                                         *)
(* A JavaScript Map is a sequence of entries [key, val] with unique keys   *)
(* in insertion order; a JavaScript Set is a sequence without duplicates.  *)
(* Strings used as ids are sequences of tokens, so that the template       *)
(* literal `${owner}:${id}` is a real concatenation.                       *)
(***************************************************************************)
EXTENDS Integers, Sequences, FiniteSets, TLC

\* ------------------------------------------------------------------------
\* Bounds of the model
\* ------------------------------------------------------------------------
MaxCalls == 3
MaxListLen == 2

\* ------------------------------------------------------------------------
\* Values
\* ------------------------------------------------------------------------
\* the absence of an optional field (category?: string)
Undefined == "<undefined>"

\* Optional results (Command | undefined)
None == <<>>
Some(v) == <<v>>

\* `${ownerId}:${commandId}`
compositeId(ownerId, commandId) == ownerId \o <<":">> \o commandId

Command(id, title, category) == [id |-> id, title |-> title, category |-> category]

cmdOpen == Command(<<"a">>, "Open", Undefined)
cmdOpenFile == Command(<<"a">>, "Open File", "Navigation")
cmdSave == Command(<<"b">>, "Save", "Actions")
\* a directly registered command whose id has the shape of a composite key
cmdGitLike == Command(<<"x", ":", "a">>, "Commit", Undefined)

\* commands a caller registers directly
DirectCommands == {cmdOpen, cmdOpenFile, cmdGitLike}
\* commands a caller bundles in plugins and groups
BundledCommands == {cmdOpen, cmdSave}

\* the lists of at most n different elements of S
ListsUpTo(S, n) ==
  {list \in UNION {[1..k -> S] : k \in 0..n} :
     \A i, j \in 1..Len(list) : i < j => list[i] # list[j]}

ListenerIds == {"l1", "l2"}

\* CommandPlugin (types.ts): onRegister / onUnregister are optional hooks
Plugin(id, name, list, onRegister, onUnregister) ==
  [id |-> id, name |-> name, commands |-> list,
   onRegister |-> onRegister, onUnregister |-> onUnregister]

gitPluginV2 == Plugin(<<"x">>, "Git v2", <<cmdOpenFile>>, TRUE, TRUE)
barePlugin == Plugin(<<"y">>, "Bare", <<cmdSave>>, FALSE, FALSE)

Plugins ==
  {Plugin(<<"x">>, "Git", list, TRUE, TRUE) : list \in ListsUpTo(BundledCommands, MaxListLen)}
    \cup {gitPluginV2, barePlugin}

PluginIds == {p.id : p \in Plugins}

\* CommandGroup (types.ts)
Group(id, title, list) == [id |-> id, title |-> title, commands |-> list]

Groups == {Group(<<"x">>, "Developer", list) : list \in ListsUpTo(BundledCommands, MaxListLen)}

GroupIds == {g.id : g \in Groups}

\* every key the model can store a command under
AllKeys ==
  {c.id : c \in DirectCommands}
    \cup {compositeId(o, c.id) : o \in PluginIds \cup GroupIds,
                                 c \in BundledCommands \cup {cmdOpenFile}}

\* ------------------------------------------------------------------------
\* Map and Set of JavaScript, in insertion order
\* ------------------------------------------------------------------------
MapKeys(map) == {map[i].key : i \in 1..Len(map)}

MapHas(map, k) == k \in MapKeys(map)

MapIndex(map, k) == CHOOSE i \in 1..Len(map) : map[i].key = k

MapGet(map, k) == IF MapHas(map, k) THEN Some(map[MapIndex(map, k)].val) ELSE None

\* Map.prototype.set: an existing key keeps its position
MapSet(map, k, v) ==
  IF MapHas(map, k)
  THEN [map EXCEPT ![MapIndex(map, k)] = [key |-> k, val |-> v]]
  ELSE Append(map, [key |-> k, val |-> v])

MapDelete(map, k) == SelectSeq(map, LAMBDA e : e.key # k)

\* Array.from(map.values())
MapValues(map) == [i \in 1..Len(map) |-> map[i].val]

SetHas(set, x) == \E i \in 1..Len(set) : set[i] = x

SetAdd(set, x) == IF SetHas(set, x) THEN set ELSE Append(set, x)

SetDelete(set, x) == SelectSeq(set, LAMBDA y : y # x)

\* ------------------------------------------------------------------------
\* State
\* ------------------------------------------------------------------------
VARIABLES
  commands,        \* Map<string, Command>
  plugins,         \* Map<string, CommandPlugin>
  groups,          \* Map<string, CommandGroup>
  listeners,       \* Set<CommandChangeListener>
  cachedCommands,  \* Command[]
  cacheValid,      \* boolean
  call,            \* the last public call: [op, arg]
  result,          \* what the last public call returned
  events,          \* hook and listener invocations made by the last call, in order
  before,          \* the registry fields when the last call started
  calls,           \* the number of public calls made so far
  state,           \* CommandPaletteState of useCommandPalette
  executing        \* the command actions whose promise has not settled yet

vars == <<commands, plugins, groups, listeners, cachedCommands, cacheValid,
          call, result, events, before, calls, state, executing>>

\* the value useState starts with and close() sets (hooks.ts)
InitialState ==
  [isOpen |-> FALSE, query |-> <<>>, selectedIndex |-> 0, parameterMode |-> FALSE,
   currentCommand |-> <<>>, parameterValues |-> <<>>, currentParameterIndex |-> 0]

\* the registry object, with the invocations made so far by the running call
This ==
  [commands |-> commands, plugins |-> plugins, groups |-> groups,
   listeners |-> listeners, cachedCommands |-> cachedCommands,
   cacheValid |-> cacheValid, events |-> <<>>, result |-> [kind |-> "void"]]

Fields(this) ==
  [commands |-> this.commands, plugins |-> this.plugins, groups |-> this.groups,
   listeners |-> this.listeners, cachedCommands |-> this.cachedCommands,
   cacheValid |-> this.cacheValid]

Returning(this, value) == [this EXCEPT !.result = value]

Boolean(b) == [kind |-> "boolean", value |-> b]
Void == [kind |-> "void"]
\* the closures the register operations return
Closure(op, arg) == [kind |-> "closure", op |-> op, arg |-> arg]

\* ------------------------------------------------------------------------
\* CommandRegistry
\* ------------------------------------------------------------------------
getCommand(this, id) == MapGet(this.commands, id)

getAllCommands(this) ==
  IF ~this.cacheValid
  THEN Returning([this EXCEPT !.cachedCommands = MapValues(this.commands),
                              !.cacheValid = TRUE],
                 MapValues(this.commands))
  ELSE Returning(this, this.cachedCommands)

\* listener(commands)
NotifyEvent(listener, snapshot) ==
  [kind |-> "notify", listener |-> listener, snapshot |-> snapshot]

\* plugin.onRegister?.() / plugin.onUnregister?.(): the hook sees the registry
\* as it is at the moment of the invocation
HookEvent(hook, plugin, this) ==
  [kind |-> "hook", hook |-> hook, plugin |-> plugin, commands |-> this.commands,
   cachedCommands |-> this.cachedCommands, cacheValid |-> this.cacheValid]

notifyListeners(this) ==
  LET invalidated == [this EXCEPT !.cacheValid = FALSE]
      read == getAllCommands(invalidated)
      snapshot == read.result
  IN [read EXCEPT
        !.events = @ \o [i \in 1..Len(this.listeners) |->
                           NotifyEvent(this.listeners[i], snapshot)],
        !.result = Void]

\* registerCommand that refuses to overwrite an id that is already present
registerCommand_keepExisting(this, command) ==
  LET set == IF MapHas(this.commands, command.id)
             THEN this
             ELSE [this EXCEPT !.commands = MapSet(@, command.id, command)]
  IN Returning(notifyListeners(set), Closure("unregisterCommand", command.id))

\* registerCommand that rejects an id that is already present
registerCommand_rejectsDuplicate(this, command) ==
  IF MapHas(this.commands, command.id)
  THEN Returning(this, Closure("unregisterCommand", command.id))
  ELSE Returning(notifyListeners([this EXCEPT !.commands = MapSet(@, command.id, command)]),
                 Closure("unregisterCommand", command.id))

registerCommand(this, command) ==
  LET set == [this EXCEPT !.commands = MapSet(@, command.id, command)]
  IN Returning(notifyListeners(set), Closure("unregisterCommand", command.id))

RECURSIVE setAll(_, _)
\* for (const command of commands) this.commands.set(command.id, command)
setAll(map, list) ==
  IF list = <<>> THEN map
  ELSE setAll(MapSet(map, Head(list).id, Head(list)), Tail(list))

RECURSIVE registerEach(_, _)
registerEach(this, list) ==
  IF list = <<>> THEN this
  ELSE registerEach(registerCommand(this, Head(list)), Tail(list))

\* registerCommands that notifies inside the loop, once per inserted command
registerCommands_notifyEach(this, list) ==
  Returning(registerEach(this, list),
            Closure("unregisterCommands", [i \in 1..Len(list) |-> list[i].id]))

registerCommands(this, list) ==
  LET set == [this EXCEPT !.commands = setAll(@, list)]
  IN Returning(notifyListeners(set),
               Closure("unregisterCommands", [i \in 1..Len(list) |-> list[i].id]))

\* unregisterCommand that notifies whether or not something was deleted
unregisterCommand_alwaysNotify(this, id) ==
  LET deleted == MapHas(this.commands, id)
      after == [this EXCEPT !.commands = MapDelete(@, id)]
  IN Returning(notifyListeners(after), Boolean(deleted))

unregisterCommand(this, id) ==
  LET deleted == MapHas(this.commands, id)
      after == [this EXCEPT !.commands = MapDelete(@, id)]
  IN IF deleted
     THEN Returning(notifyListeners(after), Boolean(TRUE))
     ELSE Returning(after, Boolean(FALSE))

RECURSIVE deleteAll(_, _, _)
\* for (const command of owner.commands) this.commands.delete(`${ownerId}:${command.id}`)
deleteAll(map, ownerId, list) ==
  IF list = <<>> THEN map
  ELSE deleteAll(MapDelete(map, compositeId(ownerId, Head(list).id)), ownerId, Tail(list))

callHook(this, hook, plugin) ==
  IF plugin[hook]
  THEN [this EXCEPT !.events = Append(@, HookEvent(hook, plugin, this))]
  ELSE this

RECURSIVE deleteEachNotifying(_, _, _)
deleteEachNotifying(this, ownerId, list) ==
  IF list = <<>> THEN this
  ELSE deleteEachNotifying(
         notifyListeners([this EXCEPT
           !.commands = MapDelete(@, compositeId(ownerId, Head(list).id))]),
         ownerId, Tail(list))

\* unregisterPlugin that notifies inside the loop, after each deleted command
unregisterPlugin_notifyEach(this, pluginId) ==
  LET found == MapGet(this.plugins, pluginId)
  IN IF found = None
     THEN Returning(this, Boolean(FALSE))
     ELSE LET plugin == found[1]
              removed == deleteEachNotifying(this, pluginId, plugin.commands)
              hooked == callHook(removed, "onUnregister", plugin)
              deleted == [hooked EXCEPT !.plugins = MapDelete(@, pluginId)]
          IN Returning(deleted, Boolean(TRUE))

\* unregisterPlugin that forgets to delete the plugin record
unregisterPlugin_keepsRecord(this, pluginId) ==
  LET found == MapGet(this.plugins, pluginId)
  IN IF found = None
     THEN Returning(this, Boolean(FALSE))
     ELSE LET plugin == found[1]
              removed == [this EXCEPT !.commands = deleteAll(@, pluginId, plugin.commands)]
              hooked == callHook(removed, "onUnregister", plugin)
          IN Returning(notifyListeners(hooked), Boolean(TRUE))

unregisterPlugin(this, pluginId) ==
  LET found == MapGet(this.plugins, pluginId)
  IN IF found = None
     THEN Returning(this, Boolean(FALSE))
     ELSE LET plugin == found[1]
              removed == [this EXCEPT !.commands = deleteAll(@, pluginId, plugin.commands)]
              hooked == callHook(removed, "onUnregister", plugin)
              deleted == [hooked EXCEPT !.plugins = MapDelete(@, pluginId)]
          IN Returning(notifyListeners(deleted), Boolean(TRUE))

\* a copy that keeps the id of the original
prefixedCopy_keepsId(command, prefixedId) == command

\* { ...command, id: prefixedId }
prefixedCopy(command, prefixedId) == [command EXCEPT !.id = prefixedId]

RECURSIVE installPlugin(_, _, _)
installPlugin(map, pluginId, list) ==
  IF list = <<>> THEN map
  ELSE LET prefixedId == compositeId(pluginId, Head(list).id)
       IN installPlugin(MapSet(map, prefixedId, prefixedCopy(Head(list), prefixedId)),
                        pluginId, Tail(list))

\* registerPlugin that overwrites the record of a registered plugin without
\* unregistering it first
registerPlugin_overwrites(this, plugin) ==
  LET recorded == [this EXCEPT !.plugins = MapSet(@, plugin.id, plugin)]
      installed == [recorded EXCEPT !.commands = installPlugin(@, plugin.id, plugin.commands)]
      hooked == callHook(installed, "onRegister", plugin)
  IN Returning(notifyListeners(hooked), Closure("unregisterPlugin", plugin.id))

registerPlugin(this, plugin) ==
  LET cleared == IF MapHas(this.plugins, plugin.id)
                 THEN unregisterPlugin(this, plugin.id)
                 ELSE this
      recorded == [cleared EXCEPT !.plugins = MapSet(@, plugin.id, plugin)]
      installed == [recorded EXCEPT !.commands = installPlugin(@, plugin.id, plugin.commands)]
      hooked == callHook(installed, "onRegister", plugin)
  IN Returning(notifyListeners(hooked), Closure("unregisterPlugin", plugin.id))

\* { ...command, id: groupedId, category: group.title }
groupedCopy(command, groupedId, title) ==
  [command EXCEPT !.id = groupedId, !.category = title]

RECURSIVE installGroup(_, _, _)
installGroup(map, group, list) ==
  IF list = <<>> THEN map
  ELSE LET groupedId == compositeId(group.id, Head(list).id)
       IN installGroup(MapSet(map, groupedId, groupedCopy(Head(list), groupedId, group.title)),
                       group, Tail(list))

\* registerGroup that removes the entries of a registered group with the
\* same id before it installs the new ones
registerGroup_replaces(this, group) ==
  LET found == MapGet(this.groups, group.id)
      cleared == IF found = None THEN this
                 ELSE [this EXCEPT !.commands = deleteAll(@, group.id, found[1].commands)]
      recorded == [cleared EXCEPT !.groups = MapSet(@, group.id, group)]
      installed == [recorded EXCEPT !.commands = installGroup(@, group, group.commands)]
  IN Returning(notifyListeners(installed), Closure("unregisterGroup", group.id))

registerGroup(this, group) ==
  LET recorded == [this EXCEPT !.groups = MapSet(@, group.id, group)]
      installed == [recorded EXCEPT !.commands = installGroup(@, group, group.commands)]
  IN Returning(notifyListeners(installed), Closure("unregisterGroup", group.id))

unregisterGroup(this, groupId) ==
  LET found == MapGet(this.groups, groupId)
  IN IF found = None
     THEN Returning(this, Boolean(FALSE))
     ELSE LET group == found[1]
              removed == [this EXCEPT !.commands = deleteAll(@, groupId, group.commands)]
              deleted == [removed EXCEPT !.groups = MapDelete(@, groupId)]
          IN Returning(notifyListeners(deleted), Boolean(TRUE))

subscribe(this, listener) ==
  Returning([this EXCEPT !.listeners = SetAdd(@, listener)],
            Closure("unsubscribe", listener))

\* an unsubscribe closure that leaves the listener in the set
unsubscribe_keepsListener(this, listener) ==
  Returning(this, Boolean(SetHas(this.listeners, listener)))

\* the closure subscribe returns: () => this.listeners.delete(listener)
unsubscribe(this, listener) ==
  Returning([this EXCEPT !.listeners = SetDelete(@, listener)],
            Boolean(SetHas(this.listeners, listener)))

RECURSIVE unregisterHooks(_, _)
\* for (const plugin of this.plugins.values()) plugin.onUnregister?.()
unregisterHooks(this, list) ==
  IF list = <<>> THEN this
  ELSE unregisterHooks(callHook(this, "onUnregister", Head(list)), Tail(list))

\* clear that empties the maps without running the teardown hooks
clear_skipsHooks(this) ==
  LET emptied == [this EXCEPT !.commands = <<>>, !.plugins = <<>>, !.groups = <<>>,
                              !.cacheValid = FALSE]
  IN notifyListeners(emptied)

clear(this) ==
  LET hooked == unregisterHooks(this, MapValues(this.plugins))
      emptied == [hooked EXCEPT !.commands = <<>>, !.plugins = <<>>, !.groups = <<>>,
                                !.cacheValid = FALSE]
  IN notifyListeners(emptied)

RECURSIVE groupInto(_, _)
\* for (const command of this.commands.values()) { ... existing.push(command) ... }
groupInto(grouped, list) ==
  IF list = <<>> THEN grouped
  ELSE LET command == Head(list)
           category == IF command.category = Undefined THEN "General" ELSE command.category
           found == MapGet(grouped, category)
           existing == IF found = None THEN <<>> ELSE found[1]
       IN groupInto(MapSet(grouped, category, Append(existing, command)), Tail(list))

RECURSIVE groupIntoFresh(_, _)
groupIntoFresh(grouped, list) ==
  IF list = <<>> THEN grouped
  ELSE LET command == Head(list)
           category == IF command.category = Undefined THEN "General" ELSE command.category
       IN groupIntoFresh(MapSet(grouped, category, <<command>>), Tail(list))

\* getGroupedCommands that starts a new bucket for every command
getGroupedCommands_overwrites(this) ==
  Returning(this, groupIntoFresh(<<>>, MapValues(this.commands)))

getGroupedCommands(this) ==
  Returning(this, groupInto(<<>>, MapValues(this.commands)))

RECURSIVE deleteIds(_, _)
deleteIds(map, ids) ==
  IF ids = <<>> THEN map ELSE deleteIds(MapDelete(map, Head(ids)), Tail(ids))

\* an unregister closure that deletes every id and then notifies once
unregisterEach_notifiesOnce(this, ids) ==
  LET after == [this EXCEPT !.commands = deleteIds(@, ids)]
  IN IF after.commands = this.commands THEN Returning(this, Void)
     ELSE Returning(notifyListeners(after), Void)

RECURSIVE unregisterEach(_, _)
\* for (const command of commands) this.unregisterCommand(command.id)
unregisterEach(this, ids) ==
  IF ids = <<>> THEN Returning(this, Void)
  ELSE unregisterEach(unregisterCommand(this, Head(ids)), Tail(ids))

\* an unregister closure that deletes and notifies without looking at the
\* outcome of the deletion
callClosure_alwaysNotifies(this, closure) ==
  CASE closure.op = "unregisterCommand" ->
         unregisterCommand_alwaysNotify(this, closure.arg)
    [] closure.op = "unregisterCommands" -> unregisterEach(this, closure.arg)
    [] closure.op = "unregisterPlugin" -> unregisterPlugin(this, closure.arg)
    [] closure.op = "unregisterGroup" -> unregisterGroup(this, closure.arg)
    [] closure.op = "unsubscribe" -> unsubscribe(this, closure.arg)

\* a call of the function a register operation returned
callClosure(this, closure) ==
  CASE closure.op = "unregisterCommand" -> unregisterCommand(this, closure.arg)
    [] closure.op = "unregisterCommands" -> unregisterEach(this, closure.arg)
    [] closure.op = "unregisterPlugin" -> unregisterPlugin(this, closure.arg)
    [] closure.op = "unregisterGroup" -> unregisterGroup(this, closure.arg)
    [] closure.op = "unsubscribe" -> unsubscribe(this, closure.arg)

\* ------------------------------------------------------------------------
\* The public calls, as actions
\* ------------------------------------------------------------------------
Init ==
  /\ commands = <<>>
  /\ plugins = <<>>
  /\ groups = <<>>
  /\ listeners = <<>>
  /\ cachedCommands = <<>>
  /\ cacheValid = FALSE
  /\ call = [op |-> "new"]
  /\ result = Void
  /\ events = <<>>
  /\ before = [commands |-> <<>>, plugins |-> <<>>, groups |-> <<>>, listeners |-> <<>>,
               cachedCommands |-> <<>>, cacheValid |-> FALSE]
  /\ calls = 0
  /\ state = InitialState
  /\ executing = <<>>

\* the call `op(arg)` ran to completion and left the registry as `after`
Called(op, arg, after) ==
  /\ calls < MaxCalls
  /\ calls' = calls + 1
  /\ commands' = after.commands
  /\ plugins' = after.plugins
  /\ groups' = after.groups
  /\ listeners' = after.listeners
  /\ cachedCommands' = after.cachedCommands
  /\ cacheValid' = after.cacheValid
  /\ call' = [op |-> op, arg |-> arg]
  /\ result' = after.result
  /\ events' = after.events
  /\ before' = Fields(This)
  /\ UNCHANGED <<state, executing>>

RegisterCommand ==
  \E command \in DirectCommands :
    Called("registerCommand", command, registerCommand(This, command))

RegisterCommands ==
  \E list \in ListsUpTo(DirectCommands, MaxListLen) :
    Called("registerCommands", list, registerCommands(This, list))

UnregisterCommand ==
  \E id \in AllKeys :
    Called("unregisterCommand", id, unregisterCommand(This, id))

RegisterPlugin ==
  \E plugin \in Plugins :
    Called("registerPlugin", plugin, registerPlugin(This, plugin))

UnregisterPlugin ==
  \E pluginId \in PluginIds :
    Called("unregisterPlugin", pluginId, unregisterPlugin(This, pluginId))

RegisterGroup ==
  \E group \in Groups :
    Called("registerGroup", group, registerGroup(This, group))

UnregisterGroup ==
  \E groupId \in GroupIds :
    Called("unregisterGroup", groupId, unregisterGroup(This, groupId))

GetAllCommands ==
  Called("getAllCommands", <<>>, getAllCommands(This))

Subscribe ==
  \E listener \in ListenerIds :
    Called("subscribe", listener, subscribe(This, listener))

\* the closure exists once subscribe(listener) has returned it
Unsubscribe ==
  \E listener \in ListenerIds :
    /\ SetHas(listeners, listener)
    /\ Called("unsubscribe", listener, unsubscribe(This, listener))

Clear ==
  Called("clear", <<>>, clear(This))

GetGroupedCommands ==
  Called("getGroupedCommands", <<>>, getGroupedCommands(This))

\* the caller invokes the function the last register call returned
CallUnregister ==
  /\ call.op \in {"registerCommand", "registerCommands", "registerPlugin", "registerGroup"}
  /\ Called("callback", result, callClosure(This, result))

Next ==
  \/ RegisterCommand
  \/ RegisterCommands
  \/ UnregisterCommand
  \/ RegisterPlugin
  \/ UnregisterPlugin
  \/ RegisterGroup
  \/ UnregisterGroup
  \/ GetAllCommands
  \/ Subscribe
  \/ Unsubscribe
  \/ Clear
  \/ GetGroupedCommands
  \/ CallUnregister

Spec == Init /\ [][Next]_vars

\* ------------------------------------------------------------------------
\* Observations on the last call
\* ------------------------------------------------------------------------
Entries(map) == {map[i] : i \in 1..Len(map)}

Elements(list) == {list[i] : i \in 1..Len(list)}

NotifyEvents(evs) == {i \in 1..Len(evs) : evs[i].kind = "notify"}

HookEvents(evs) == {i \in 1..Len(evs) : evs[i].kind = "hook"}

\* how often the listener was invoked
NotifyCount(evs, listener) ==
  Cardinality({i \in NotifyEvents(evs) : evs[i].listener = listener})

\* how often the hook of that plugin object was invoked
HookCount(evs, hook, plugin) ==
  Cardinality({i \in HookEvents(evs) : evs[i].hook = hook /\ evs[i].plugin = plugin})

\* the last command of the list with that id
LastWithId(list, id) ==
  list[CHOOSE i \in 1..Len(list) :
         /\ list[i].id = id
         /\ \A j \in (i + 1)..Len(list) : list[j].id # id]

\* ------------------------------------------------------------------------
\* C1  Registry round trip: after registerCommand(c), getCommand(c.id)
\*     returns c, and an unregisterCommand(c.id) that follows makes
\*     getCommand(c.id) return undefined.
\* ------------------------------------------------------------------------
RegistryRoundTrip ==
  /\ call.op = "registerCommand" =>
       /\ getCommand(This, call.arg.id) = Some(call.arg)
       /\ getCommand(unregisterCommand(This, call.arg.id), call.arg.id) = None
  /\ call.op = "unregisterCommand" => getCommand(This, call.arg) = None

\* a command that was registered has just been unregistered
RegistryRoundTripWitness ==
  /\ call.op = "unregisterCommand"
  /\ MapGet(before.commands, call.arg) = Some(cmdOpenFile)
  /\ result = Boolean(TRUE)
  /\ commands # <<>>

\* ------------------------------------------------------------------------
\* C2  Every public mutating call (register*, clear, and unregister* of an id
\*     that is present) invokes each listener subscribed at the time of the
\*     call exactly once.
\* ------------------------------------------------------------------------
Removing == {"unregisterCommand", "unregisterPlugin", "unregisterGroup"}

Mutating ==
  \/ call.op \in {"registerCommand", "registerCommands", "registerPlugin",
                  "registerGroup", "clear"}
  \/ call.op \in Removing /\ result = Boolean(TRUE)

OneNotificationPerCall ==
  Mutating => \A l \in Elements(before.listeners) : NotifyCount(events, l) = 1

\* ------------------------------------------------------------------------
\* C3  registerCommands(list) notifies each subscriber exactly once, and the
\*     snapshot it delivers holds every command of the list.
\* ------------------------------------------------------------------------
RegisterCommandsIsAtomic ==
  call.op = "registerCommands" =>
    /\ \A l \in Elements(before.listeners) : NotifyCount(events, l) = 1
    /\ \A e \in NotifyEvents(events) :
         \A i \in 1..Len(call.arg) :
           LastWithId(call.arg, call.arg[i].id) \in Elements(events[e].snapshot)

\* two commands with different ids were registered at once under a subscriber
RegisterCommandsIsAtomicWitness ==
  /\ call.op = "registerCommands"
  /\ Len(call.arg) = 2
  /\ call.arg[1].id # call.arg[2].id
  /\ before.listeners # <<>>
  /\ NotifyEvents(events) # {}

\* ------------------------------------------------------------------------
\* C4  unregisterCommand(id) returns true exactly when id was present; when
\*     id is absent it changes none of the three maps and invokes no
\*     subscriber.
\* ------------------------------------------------------------------------
UnregisterCommandReportsRemoval ==
  call.op = "unregisterCommand" =>
    /\ result = Boolean(MapHas(before.commands, call.arg))
    /\ ~MapHas(before.commands, call.arg) =>
         /\ commands = before.commands
         /\ plugins = before.plugins
         /\ groups = before.groups
         /\ events = <<>>

\* an absent id was unregistered while commands and a subscriber were present
UnregisterCommandReportsRemovalWitness ==
  /\ call.op = "unregisterCommand"
  /\ ~MapHas(before.commands, call.arg)
  /\ result = Boolean(FALSE)
  /\ before.commands # <<>>
  /\ before.listeners # <<>>

\* ------------------------------------------------------------------------
\* C5  Plugin atomicity: for a plugin p whose id is not registered,
\*     registerPlugin(p) followed by unregisterPlugin(p.id) leaves the command
\*     map as it was (as a mapping), and each hook of p has run exactly once.
\* ------------------------------------------------------------------------
SameMapping(map1, map2) == Entries(map1) = Entries(map2)

PluginRoundTrip ==
  \A p \in Plugins :
    ~MapHas(plugins, p.id) =>
      LET registered == registerPlugin(This, p)
          unregistered == unregisterPlugin(registered, p.id)
      IN /\ SameMapping(unregistered.commands, commands)
         /\ p.onRegister => HookCount(unregistered.events, "onRegister", p) = 1
         /\ p.onUnregister => HookCount(unregistered.events, "onUnregister", p) = 1

\* ------------------------------------------------------------------------
\* C6  Every command stored under a composite key by a plugin or a group
\*     belongs to exactly one registered plugin or group: exactly one
\*     registered record has the owner id and lists the command id.
\* ------------------------------------------------------------------------
Owns(record, key) ==
  \E i \in 1..Len(record.commands) : compositeId(record.id, record.commands[i].id) = key

PluginOwners(key) == {i \in 1..Len(plugins) : Owns(plugins[i].val, key)}

GroupOwners(key) == {i \in 1..Len(groups) : Owns(groups[i].val, key)}

\* the entry was stored by registerPlugin or registerGroup, not by registerCommand(s)
IsBundled(entry) == entry.val \notin DirectCommands

BundledCommandsHaveOneOwner ==
  \A e \in Entries(commands) :
    IsBundled(e) =>
      Cardinality(PluginOwners(e.key)) + Cardinality(GroupOwners(e.key)) = 1

\* ------------------------------------------------------------------------
\* C7  No snapshot delivered during unregisterPlugin(id) or unregisterGroup(id)
\*     holds a command under a composite key of that plugin or group.
\* ------------------------------------------------------------------------
SnapshotIds(snapshot) == {snapshot[i].id : i \in 1..Len(snapshot)}

\* the composite keys of a plugin or group record
KeysOf(record) ==
  {compositeId(record.id, record.commands[i].id) : i \in 1..Len(record.commands)}

\* the record the last unregisterPlugin / unregisterGroup call removed
Removed ==
  IF call.op = "unregisterPlugin"
  THEN MapGet(before.plugins, call.arg)[1]
  ELSE MapGet(before.groups, call.arg)[1]

UnregisterBundleIsAtomic ==
  call.op \in {"unregisterPlugin", "unregisterGroup"} /\ result = Boolean(TRUE) =>
    \A e \in NotifyEvents(events) :
      SnapshotIds(events[e].snapshot) \cap KeysOf(Removed) = {}

\* a plugin with two installed commands was unregistered under a subscriber
UnregisterBundleIsAtomicWitness ==
  /\ call.op = "unregisterPlugin"
  /\ result = Boolean(TRUE)
  /\ Cardinality(KeysOf(Removed) \cap MapKeys(before.commands)) = 2
  /\ NotifyEvents(events) # {}

\* ------------------------------------------------------------------------
\* C8  registerPlugin(p) over a registered plugin with the same id removes
\*     the old plugin's composite keys and runs the old onUnregister once,
\*     before the new commands are installed and the new onRegister runs;
\*     afterwards the keys of the old plugin that remain are keys of the new
\*     plugin and hold the new plugin's copies.
\* ------------------------------------------------------------------------
Replaced == MapGet(before.plugins, call.arg.id)[1]

Replacing == call.op = "registerPlugin" /\ MapHas(before.plugins, call.arg.id)

ReplacePluginUnregistersFirst ==
  Replacing =>
    LET old == Replaced
        new == call.arg
        teardown == {i \in HookEvents(events) : events[i].hook = "onUnregister"}
        setup == {i \in HookEvents(events) : events[i].hook = "onRegister"}
    IN /\ Cardinality(teardown) = (IF old.onUnregister THEN 1 ELSE 0)
       /\ Cardinality(setup) = (IF new.onRegister THEN 1 ELSE 0)
       /\ \A i \in teardown :
            /\ events[i].plugin = old
            /\ events[i].commands = deleteAll(before.commands, old.id, old.commands)
            /\ \A j \in setup : i < j
       /\ \A j \in setup :
            /\ events[j].plugin = new
            /\ events[j].commands = commands
       /\ \A k \in KeysOf(old) : MapHas(commands, k) => k \in KeysOf(new)
       /\ \A i \in 1..Len(new.commands) :
            LET k == compositeId(new.id, new.commands[i].id)
            IN MapGet(commands, k) = Some([new.commands[i] EXCEPT !.id = k])
       /\ MapGet(plugins, new.id) = Some(new)

\* a plugin replaced another one that had installed a command the new one lacks
ReplacePluginUnregistersFirstWitness ==
  /\ Replacing
  /\ Replaced # call.arg
  /\ Replaced.onUnregister
  /\ (KeysOf(Replaced) \cap MapKeys(before.commands)) \ KeysOf(call.arg) # {}
  /\ call.arg.commands # <<>>

\* ------------------------------------------------------------------------
\* C9  unregisterPlugin(id) of an unknown id returns false and does nothing;
\*     of a registered id it removes the plugin's composite keys, runs its
\*     onUnregister once, deletes the record, notifies once and returns true,
\*     and a repeated call returns false.  unregisterGroup(id) does the same
\*     without a hook.
\* ------------------------------------------------------------------------
UnregisterBundleContract ==
  /\ call.op = "unregisterPlugin" =>
       IF MapHas(before.plugins, call.arg)
       THEN /\ result = Boolean(TRUE)
            /\ MapKeys(commands) = MapKeys(before.commands) \ KeysOf(Removed)
            /\ Cardinality(HookEvents(events)) = (IF Removed.onUnregister THEN 1 ELSE 0)
            /\ Removed.onUnregister => HookCount(events, "onUnregister", Removed) = 1
            /\ plugins = MapDelete(before.plugins, call.arg)
            /\ ~MapHas(plugins, call.arg)
            /\ groups = before.groups
            /\ \A l \in Elements(before.listeners) : NotifyCount(events, l) = 1
            /\ unregisterPlugin(This, call.arg).result = Boolean(FALSE)
       ELSE /\ result = Boolean(FALSE)
            /\ Fields(This) = before
            /\ events = <<>>
  /\ call.op = "unregisterGroup" =>
       IF MapHas(before.groups, call.arg)
       THEN /\ result = Boolean(TRUE)
            /\ MapKeys(commands) = MapKeys(before.commands) \ KeysOf(Removed)
            /\ HookEvents(events) = {}
            /\ groups = MapDelete(before.groups, call.arg)
            /\ ~MapHas(groups, call.arg)
            /\ plugins = before.plugins
            /\ \A l \in Elements(before.listeners) : NotifyCount(events, l) = 1
            /\ unregisterGroup(This, call.arg).result = Boolean(FALSE)
       ELSE /\ result = Boolean(FALSE)
            /\ Fields(This) = before
            /\ events = <<>>

\* a registered plugin with a hook and an installed command was unregistered
\* under a subscriber
UnregisterBundleContractWitness ==
  /\ call.op = "unregisterPlugin"
  /\ result = Boolean(TRUE)
  /\ Removed.onUnregister
  /\ KeysOf(Removed) \cap MapKeys(before.commands) # {}
  /\ before.listeners # <<>>

\* ------------------------------------------------------------------------
\* C10 registerPlugin and registerGroup store, for each of their commands, a
\*     copy under ownerId:commandId whose id is that key (and whose category
\*     is the group's title); the caller's objects keep their ids, and
\*     getCommand(commandId) returns what it returned before.
\* ------------------------------------------------------------------------
BundleStoresCompositeCopies ==
  /\ call.op = "registerPlugin" =>
       /\ \A i \in 1..Len(call.arg.commands) :
            LET c == call.arg.commands[i]
                k == compositeId(call.arg.id, c.id)
            IN /\ getCommand(This, k) = Some(Command(k, c.title, c.category))
               /\ getCommand(This, c.id) # getCommand(This, k)
               /\ getCommand(This, c.id) = MapGet(before.commands, c.id)
       /\ MapGet(plugins, call.arg.id) = Some(call.arg)
  /\ call.op = "registerGroup" =>
       /\ \A i \in 1..Len(call.arg.commands) :
            LET c == call.arg.commands[i]
                k == compositeId(call.arg.id, c.id)
            IN /\ getCommand(This, k) = Some(Command(k, c.title, call.arg.title))
               /\ getCommand(This, c.id) # getCommand(This, k)
               /\ getCommand(This, c.id) = MapGet(before.commands, c.id)
       /\ MapGet(groups, call.arg.id) = Some(call.arg)

\* a group installed a command that is also registered directly under its own
\* id and that had another category
BundleStoresCompositeCopiesWitness ==
  /\ call.op = "registerGroup"
  /\ \E i \in 1..Len(call.arg.commands) :
       /\ call.arg.commands[i].category # call.arg.title
       /\ MapHas(commands, call.arg.commands[i].id)

\* ------------------------------------------------------------------------
\* C11 getAllCommands() is never stale: between public calls and inside a
\*     plugin hook it returns the values of the command map as they are at
\*     that moment.
\* ------------------------------------------------------------------------
\* the registry as a hook finds it when it is invoked
HookView(event) ==
  [This EXCEPT !.commands = event.commands,
               !.cachedCommands = event.cachedCommands,
               !.cacheValid = event.cacheValid]

GetAllCommandsIsFresh ==
  /\ getAllCommands(This).result = MapValues(commands)
  /\ \A e \in HookEvents(events) :
       getAllCommands(HookView(events[e])).result = MapValues(events[e].commands)

\* ------------------------------------------------------------------------
\* Subscribers that call back into the registry
\*
\* A listener is caller code: nothing keeps it from calling a mutating
\* operation while it is being notified.  SpecReentrant runs the registry with
\* one such subscriber, `Keeper`, which registers cmdSave whenever the list it
\* is handed lacks that id.  notifyListeners reads the snapshot once and then
\* walks the listener set, so the nested call runs in the middle of the walk.
\* ------------------------------------------------------------------------
Keeper == "l2"

\* the listener body: if (!commands.some(c => c.id === 'b')) registerCommand(cmdSave)
Reacts(listener, snapshot) ==
  /\ listener = Keeper
  /\ \A i \in 1..Len(snapshot) : snapshot[i].id # cmdSave.id

\* listener(commands), with the command map as it is at that moment
ReentrantNotifyEvent(listener, snapshot, this) ==
  [kind |-> "notify", listener |-> listener, snapshot |-> snapshot,
   commands |-> this.commands]

RECURSIVE notifyListenersReentrant(_)
RECURSIVE deliver(_, _, _)

\* for (const listener of this.listeners) listener(commands)
deliver(this, snapshot, i) ==
  IF i > Len(this.listeners) THEN this
  ELSE LET listener == this.listeners[i]
           invoked == [this EXCEPT
                         !.events = Append(@, ReentrantNotifyEvent(listener, snapshot, this))]
           reacted == IF Reacts(listener, snapshot)
                      THEN notifyListenersReentrant(
                             [invoked EXCEPT !.commands = MapSet(@, cmdSave.id, cmdSave)])
                      ELSE invoked
       IN deliver(reacted, snapshot, i + 1)

notifyListenersReentrant(this) ==
  LET invalidated == [this EXCEPT !.cacheValid = FALSE]
      read == getAllCommands(invalidated)
  IN Returning(deliver(read, read.result, 1), Void)

registerCommandReentrant(this, command) ==
  LET set == [this EXCEPT !.commands = MapSet(@, command.id, command)]
  IN Returning(notifyListenersReentrant(set), Closure("unregisterCommand", command.id))

unregisterCommandReentrant(this, id) ==
  LET deleted == MapHas(this.commands, id)
      after == [this EXCEPT !.commands = MapDelete(@, id)]
  IN IF deleted
     THEN Returning(notifyListenersReentrant(after), Boolean(TRUE))
     ELSE Returning(after, Boolean(FALSE))

ReentrantRegisterCommand ==
  \E command \in DirectCommands \cup {cmdSave} :
    Called("registerCommand", command, registerCommandReentrant(This, command))

ReentrantUnregisterCommand ==
  \E id \in {c.id : c \in DirectCommands \cup {cmdSave}} :
    Called("unregisterCommand", id, unregisterCommandReentrant(This, id))

NextReentrant ==
  \/ Subscribe
  \/ ReentrantRegisterCommand
  \/ ReentrantUnregisterCommand

SpecReentrant == Init /\ [][NextReentrant]_vars

\* ------------------------------------------------------------------------
\* C12 Every invocation of a subscriber passes the values of the command map
\*     as it is at that invocation, also when a subscriber mutates the
\*     registry during a notification; the last list each subscriber received
\*     from a call is the registry content the call leaves.
\* ------------------------------------------------------------------------
\* the last invocation of the listener by the last call
LastNotification(listener) ==
  CHOOSE e \in NotifyEvents(events) :
    /\ events[e].listener = listener
    /\ \A f \in NotifyEvents(events) : events[f].listener = listener => f <= e

SubscribersSeeCurrentCommands ==
  /\ \A e \in NotifyEvents(events) :
       events[e].snapshot = MapValues(events[e].commands)
  /\ \A l \in Elements(listeners) :
       NotifyCount(events, l) > 0 =>
         events[LastNotification(l)].snapshot = MapValues(commands)

\* ------------------------------------------------------------------------
\* C13 Once the unsubscribe function of a listener has been called, no
\*     mutating operation invokes that listener any more, and every other
\*     subscribed listener is still notified.
\* ------------------------------------------------------------------------
UnsubscribedListenerIsSilent ==
  /\ \A e \in NotifyEvents(events) : SetHas(before.listeners, events[e].listener)
  /\ Mutating => \A l \in Elements(before.listeners) : NotifyCount(events, l) >= 1
  /\ call.op \notin {"subscribe", "unsubscribe"} => listeners = before.listeners
  /\ call.op = "unsubscribe" =>
       /\ ~SetHas(listeners, call.arg)
       /\ listeners = SetDelete(before.listeners, call.arg)
       /\ \A c \in DirectCommands :
            LET later == registerCommand(This, c)
            IN /\ NotifyCount(later.events, call.arg) = 0
               /\ \A l \in Elements(listeners) : NotifyCount(later.events, l) = 1

\* one of two subscribed listeners has just been unsubscribed
UnsubscribedListenerIsSilentWitness ==
  /\ call.op = "unsubscribe"
  /\ Len(before.listeners) = 2
  /\ Len(listeners) = 1

\* ------------------------------------------------------------------------
\* C14 clear() runs onUnregister of every registered plugin exactly once,
\*     then leaves the three maps empty and notifies each subscriber exactly
\*     once with an empty list; getAllCommands() is empty afterwards.
\* ------------------------------------------------------------------------
ClearEmptiesRegistry ==
  call.op = "clear" =>
    /\ \A i \in 1..Len(before.plugins) :
         before.plugins[i].val.onUnregister =>
           HookCount(events, "onUnregister", before.plugins[i].val) = 1
    /\ Cardinality(HookEvents(events)) =
         Cardinality({i \in 1..Len(before.plugins) : before.plugins[i].val.onUnregister})
    /\ \A e \in HookEvents(events) :
         /\ events[e].hook = "onUnregister"
         /\ events[e].commands = before.commands
         /\ \A f \in NotifyEvents(events) : e < f
    /\ commands = <<>>
    /\ plugins = <<>>
    /\ groups = <<>>
    /\ \A l \in Elements(before.listeners) : NotifyCount(events, l) = 1
    /\ \A e \in NotifyEvents(events) : events[e].snapshot = <<>>
    /\ Len(getAllCommands(This).result) = 0

\* a registry with a subscriber, a plugin with a teardown hook and commands
\* has been cleared
ClearEmptiesRegistryWitness ==
  /\ call.op = "clear"
  /\ before.commands # <<>>
  /\ before.listeners # <<>>
  /\ \E i \in 1..Len(before.plugins) : before.plugins[i].val.onUnregister

\* ------------------------------------------------------------------------
\* C15 Registering an id that is already present is not rejected: the stored
\*     command becomes the new one, the number of stored commands stays, and
\*     the subscribers are notified; an operation on an id that is not found
\*     returns false.
\* ------------------------------------------------------------------------
ListIds(list) == {list[i].id : i \in 1..Len(list)}

DuplicateRegistrationOverwrites ==
  /\ call.op = "registerCommand" /\ MapHas(before.commands, call.arg.id) =>
       /\ getCommand(This, call.arg.id) = Some(call.arg)
       /\ Len(commands) = Len(before.commands)
       /\ \A l \in Elements(before.listeners) : NotifyCount(events, l) = 1
       /\ result = Closure("unregisterCommand", call.arg.id)
  /\ call.op = "registerCommands" =>
       /\ \A i \in 1..Len(call.arg) :
            getCommand(This, call.arg[i].id) = Some(LastWithId(call.arg, call.arg[i].id))
       /\ Len(commands) = Cardinality(MapKeys(before.commands) \cup ListIds(call.arg))
       /\ \A l \in Elements(before.listeners) : NotifyCount(events, l) = 1
       /\ result.kind = "closure"
  /\ call.op = "unregisterCommand" /\ ~MapHas(before.commands, call.arg) =>
       result = Boolean(FALSE)
  /\ call.op = "unregisterPlugin" /\ ~MapHas(before.plugins, call.arg) =>
       result = Boolean(FALSE)
  /\ call.op = "unregisterGroup" /\ ~MapHas(before.groups, call.arg) =>
       result = Boolean(FALSE)

\* another command was registered over a present id under a subscriber
DuplicateRegistrationOverwritesWitness ==
  /\ call.op = "registerCommand"
  /\ MapHas(before.commands, call.arg.id)
  /\ MapGet(before.commands, call.arg.id) # Some(call.arg)
  /\ before.listeners # <<>>

\* ------------------------------------------------------------------------
\* C16 The function registerCommand(c) returns is idempotent: its first call
\*     removes the command with id c.id and notifies the subscribers, a
\*     further call changes nothing and notifies nobody.
\* ------------------------------------------------------------------------
UnregisterCallbackIsIdempotent ==
  /\ call.op = "callback" /\ call.arg.op = "unregisterCommand" =>
       LET id == call.arg.arg
           again == callClosure(This, call.arg)
       IN /\ MapHas(before.commands, id)
          /\ commands = MapDelete(before.commands, id)
          /\ ~MapHas(commands, id)
          /\ \A l \in Elements(before.listeners) : NotifyCount(events, l) = 1
          /\ Fields(again) = Fields(This)
          /\ again.events = <<>>
          /\ again.result = Boolean(FALSE)
  /\ \A c \in DirectCommands :
       ~MapHas(commands, c.id) =>
         LET further == callClosure(This, Closure("unregisterCommand", c.id))
         IN /\ Fields(further) = Fields(This)
            /\ further.events = <<>>

\* the function returned by registerCommand was called under a subscriber
UnregisterCallbackIsIdempotentWitness ==
  /\ call.op = "callback"
  /\ call.arg.op = "unregisterCommand"
  /\ before.listeners # <<>>
  /\ NotifyEvents(events) # {}

\* ------------------------------------------------------------------------
\* C17 getGroupedCommands() partitions the registered commands by category:
\*     each command is in exactly one bucket, the one of its category or
\*     "General" when it has none, no bucket is empty, and the buckets
\*     together hold the commands of getAllCommands().
\* ------------------------------------------------------------------------
\* the places (bucket, position) where the grouping holds the command
Places(grouped, command) ==
  {<<b, i>> \in (1..Len(grouped)) \X (1..Len(commands)) :
     i <= Len(grouped[b].val) /\ grouped[b].val[i] = command}

GroupingIsPartition ==
  LET grouped == getGroupedCommands(This).result
  IN /\ \A k \in 1..Len(commands) :
          LET command == commands[k].val
              bucket == IF command.category = Undefined THEN "General"
                        ELSE command.category
          IN /\ Cardinality(Places(grouped, command)) = 1
             /\ \A p \in Places(grouped, command) : grouped[p[1]].key = bucket
     /\ \A b \in 1..Len(grouped) : grouped[b].val # <<>>
     /\ UNION {Elements(grouped[b].val) : b \in 1..Len(grouped)}
          = Elements(getAllCommands(This).result)
     /\ call.op = "getGroupedCommands" => result = grouped

\* the grouping of a registry with a bucket of two commands and another bucket
GroupingIsPartitionWitness ==
  /\ call.op = "getGroupedCommands"
  /\ Len(result) >= 2
  /\ \E b \in 1..Len(result) : Len(result[b].val) = 2 /\ result[b].key = "General"

\* ------------------------------------------------------------------------
\* Fuzzy search (fuzzy-search.ts)
\* ------------------------------------------------------------------------
MaxQueryLen == 2
MaxTargetLen == 3
MaxSearched == 3
MaxLimit == 3
MaxRanges == 2

\* Strings are sequences of characters over a small alphabet with a letter in
\* both cases and a white-space character.
Alphabet == {"a", "b", "A", " "}

StringsUpTo(n) == UNION {[1..k -> Alphabet] : k \in 0..n}

\* String.prototype.toLowerCase
toLowerCase(s) == [i \in 1..Len(s) |-> IF s[i] = "A" THEN "a" ELSE s[i]]

RECURSIVE trim(_)
\* String.prototype.trim
trim(s) ==
  IF s = <<>> THEN s
  ELSE IF Head(s) = " " THEN trim(Tail(s))
  ELSE IF s[Len(s)] = " " THEN trim(SubSeq(s, 1, Len(s) - 1))
  ELSE s

\* /[\s\-_./]/.test(c)
isWordSeparator(c) == c \in {" ", "-", "_", ".", "/"}

\* String.prototype.startsWith
startsWith(s, prefix) ==
  Len(prefix) <= Len(s) /\ SubSeq(s, 1, Len(prefix)) = prefix

\* Scores are exact fractions in lowest terms; the rounding of the doubles
\* of the implementation is not represented.
RECURSIVE GCD(_, _)
GCD(a, b) == IF b = 0 THEN a ELSE GCD(b, a % b)

Rat(n, d) == [num |-> n \div GCD(n, d), den |-> d \div GCD(n, d)]
RatInt(n) == [num |-> n, den |-> 1]
RatAdd(x, y) == Rat(x.num * y.den + y.num * x.den, x.den * y.den)
RatMul(x, y) == Rat(x.num * y.num, x.den * y.den)
RatLess(x, y) == x.num * y.den < y.num * x.den
RatMax(x, y) == IF RatLess(x, y) THEN y ELSE x

\* the state of the scan before its first step
scanStart ==
  [score |-> RatInt(0), queryIndex |-> 0, lastMatchIndex |-> -1,
   consecutiveBonus |-> 0, indices |-> <<>>]

\* indices with the position i added: the last range grows when i follows it
\* index tracking that emits every matched position as a range of its own
trackIndex_singletons(indices, i) == Append(indices, <<i, i>>)

\* index tracking that stretches the last range to every new position
trackIndex_mergesAll(indices, i) ==
  IF indices # <<>>
  THEN [indices EXCEPT ![Len(indices)] = <<@[1], i>>]
  ELSE Append(indices, <<i, i>>)

trackIndex(indices, i) ==
  IF indices # <<>> /\ indices[Len(indices)][2] = i - 1
  THEN [indices EXCEPT ![Len(indices)] = <<@[1], i>>]
  ELSE Append(indices, <<i, i>>)

RECURSIVE scan(_, _, _, _)
\* for (let i = 0; i < targetLower.length && queryIndex < queryLower.length; i++)
\* with i and the indices counted from 0 as in the code
scan(query, target, i, st) ==
  LET queryLower == toLowerCase(query)
      targetLower == toLowerCase(target)
      length == Len(targetLower)
  IN IF ~(i < length /\ st.queryIndex < Len(queryLower)) THEN st
     ELSE IF targetLower[i + 1] # queryLower[st.queryIndex + 1]
     THEN scan(query, target, i + 1, st)
     ELSE LET consecutive == st.lastMatchIndex = i - 1
              consecutiveBonus == IF consecutive THEN st.consecutiveBonus + 1 ELSE 0
              matchScore ==
                1 + (IF consecutive THEN consecutiveBonus * 2 ELSE 0)
                  + (IF i = 0 \/ isWordSeparator(target[i]) THEN 10 ELSE 0)
                  + (IF query[st.queryIndex + 1] = target[i + 1] THEN 1 ELSE 0)
              positionBonus ==
                RatMax(RatInt(0), RatMul(Rat(length - i, length), RatInt(5)))
          IN scan(query, target, i + 1,
                  [score |-> RatAdd(st.score, RatAdd(RatInt(matchScore), positionBonus)),
                   queryIndex |-> st.queryIndex + 1,
                   lastMatchIndex |-> i,
                   consecutiveBonus |-> consecutiveBonus,
                   indices |-> trackIndex(st.indices, i)])

MatchResult(score, indices) == [score |-> score, indices |-> indices]

\* a matcher that accepts only a target that starts with the query
calculateMatchScore_prefixOnly(query, target) ==
  LET queryLower == toLowerCase(query)
      targetLower == toLowerCase(target)
  IN IF Len(queryLower) = 0 THEN Some(MatchResult(RatInt(0), <<>>))
     ELSE IF ~startsWith(targetLower, queryLower) THEN None
     ELSE LET st == scan(query, target, 0, scanStart)
              normalizedScore ==
                RatMul(st.score, Rat(Len(queryLower), Len(targetLower)))
          IN IF queryLower = targetLower
             THEN Some(MatchResult(RatAdd(normalizedScore, RatInt(100)), st.indices))
             ELSE Some(MatchResult(RatAdd(normalizedScore, RatInt(50)), st.indices))

calculateMatchScore(query, target) ==
  LET queryLower == toLowerCase(query)
      targetLower == toLowerCase(target)
  IN IF Len(queryLower) = 0 THEN Some(MatchResult(RatInt(0), <<>>))
     ELSE IF Len(queryLower) > Len(targetLower) THEN None
     ELSE LET st == scan(query, target, 0, scanStart)
              normalizedScore ==
                RatMul(st.score, Rat(Len(queryLower), Len(targetLower)))
          IN IF st.queryIndex < Len(queryLower) THEN None
             ELSE IF queryLower = targetLower
             THEN Some(MatchResult(RatAdd(normalizedScore, RatInt(100)), st.indices))
             ELSE IF startsWith(targetLower, queryLower)
             THEN Some(MatchResult(RatAdd(normalizedScore, RatInt(50)), st.indices))
             ELSE Some(MatchResult(normalizedScore, st.indices))

\* the searched fields of a Command; hidden and disabled are false when absent
SearchCommand(id, title, description, keywords, hidden, disabled) ==
  [id |-> id, title |-> title, description |-> description, keywords |-> keywords,
   hidden |-> hidden, disabled |-> disabled]

FuzzyMatch(command, score, matches) ==
  [command |-> command, score |-> score, matches |-> matches]

\* Array.prototype.slice(0, end) for end >= 0
slice(list, end) == SubSeq(list, 1, IF end < Len(list) THEN end ELSE Len(list))

\* Array.prototype.filter(cmd => !cmd.hidden)
RECURSIVE filterVisible(_)
filterVisible(list) ==
  IF list = <<>> THEN <<>>
  ELSE IF Head(list).hidden THEN filterVisible(Tail(list))
  ELSE <<Head(list)>> \o filterVisible(Tail(list))

RECURSIVE insertByScore_beforeEqual(_, _)
\* an insertion that puts entry before the entries of equal score
insertByScore_beforeEqual(sorted, entry) ==
  IF sorted = <<>> THEN <<entry>>
  ELSE IF ~RatLess(entry.score, Head(sorted).score) THEN <<entry>> \o sorted
  ELSE <<Head(sorted)>> \o insertByScore_beforeEqual(Tail(sorted), entry)

RECURSIVE insertByScore(_, _)
\* sorted with entry put behind every entry whose score is not lower
insertByScore(sorted, entry) ==
  IF sorted = <<>> THEN <<entry>>
  ELSE IF RatLess(Head(sorted).score, entry.score) THEN <<entry>> \o sorted
  ELSE <<Head(sorted)>> \o insertByScore(Tail(sorted), entry)

RECURSIVE sortByScore(_, _)
\* results.sort((a, b) => b.score - a.score): stable, descending
sortByScore(sorted, list) ==
  IF list = <<>> THEN sorted
  ELSE sortByScore(insertByScore(sorted, Head(list)), Tail(list))

\* totalScore and matches after one field: weight is a fraction
matchField(acc, query, value, key, weight) ==
  LET found == calculateMatchScore(query, value)
  IN IF found = None THEN acc
     ELSE [totalScore |-> RatAdd(acc.totalScore, RatMul(found[1].score, weight)),
           matches |-> Append(acc.matches,
                              [indices |-> found[1].indices, value |-> value, key |-> key])]

RECURSIVE matchKeywords_firstOnly(_, _, _)
\* a keyword loop that stops at the first keyword that matches
matchKeywords_firstOnly(acc, query, keywords) ==
  IF keywords = <<>> THEN acc
  ELSE IF calculateMatchScore(query, Head(keywords)) # None
  THEN matchField(acc, query, Head(keywords), "keywords", RatInt(2))
  ELSE matchKeywords_firstOnly(acc, query, Tail(keywords))

RECURSIVE matchKeywords(_, _, _)
\* for (const keyword of command.keywords)
matchKeywords(acc, query, keywords) ==
  IF keywords = <<>> THEN acc
  ELSE matchKeywords(matchField(acc, query, Head(keywords), "keywords", RatInt(2)),
                     query, Tail(keywords))

\* the body of the loop over the commands, for a command that is not skipped
matchCommand(command, query) ==
  LET start == [totalScore |-> RatInt(0), matches |-> <<>>]
      titled == matchField(start, query, command.title, "title", RatInt(3))
      described ==
        IF command.description # None /\ command.description[1] # <<>>
        THEN matchField(titled, query, command.description[1], "description", Rat(3, 2))
        ELSE titled
  IN IF command.keywords # None
     THEN matchKeywords(described, query, command.keywords[1])
     ELSE described

RECURSIVE collect(_, _)
\* for (const command of commands) { ... results.push(...) }
collect(list, query) ==
  IF list = <<>> THEN <<>>
  ELSE LET command == Head(list)
           matched == matchCommand(command, query)
       IN IF command.hidden \/ command.disabled \/ matched.matches = <<>>
          THEN collect(Tail(list), query)
          ELSE <<FuzzyMatch(command, matched.totalScore, matched.matches)>>
                 \o collect(Tail(list), query)

RECURSIVE defaultScores(_)
\* .map(command => ({ command, score: 0, matches: [] }))
defaultScores(list) ==
  IF list = <<>> THEN <<>>
  ELSE <<FuzzyMatch(Head(list), RatInt(0), <<>>)>> \o defaultScores(Tail(list))

RECURSIVE skipDisabled(_)
skipDisabled(list) ==
  IF list = <<>> THEN <<>>
  ELSE IF Head(list).disabled THEN skipDisabled(Tail(list))
  ELSE <<Head(list)>> \o skipDisabled(Tail(list))

RECURSIVE collectAll(_, _)
collectAll(list, query) ==
  IF list = <<>> THEN <<>>
  ELSE LET command == Head(list)
           matched == matchCommand(command, query)
       IN IF matched.matches = <<>>
          THEN collectAll(Tail(list), query)
          ELSE <<FuzzyMatch(command, matched.totalScore, matched.matches)>>
                 \o collectAll(Tail(list), query)

\* a search that scores hidden and disabled commands like the others
fuzzySearchCommands_keepsSkipped(list, query, maxResults) ==
  IF trim(query) = <<>>
  THEN defaultScores(slice(filterVisible(list), maxResults))
  ELSE slice(sortByScore(<<>>, collectAll(list, query)), maxResults)

\* a search that cuts the list of matches before sorting it
fuzzySearchCommands_sliceBeforeSort(list, query, maxResults) ==
  IF trim(query) = <<>>
  THEN defaultScores(slice(filterVisible(list), maxResults))
  ELSE sortByScore(<<>>, slice(collect(list, query), maxResults))

\* a search whose blank branch drops the disabled commands as well
fuzzySearchCommands_blankSkipsDisabled(list, query, maxResults) ==
  IF trim(query) = <<>>
  THEN defaultScores(slice(skipDisabled(filterVisible(list)), maxResults))
  ELSE slice(sortByScore(<<>>, collect(list, query)), maxResults)

\* a search that matches the fields against the trimmed query
fuzzySearchCommands_trimsQuery(list, query, maxResults) ==
  IF trim(query) = <<>>
  THEN defaultScores(slice(filterVisible(list), maxResults))
  ELSE slice(sortByScore(<<>>, collect(list, trim(query))), maxResults)

fuzzySearchCommands(list, query, maxResults) ==
  IF trim(query) = <<>>
  THEN defaultScores(slice(filterVisible(list), maxResults))
  ELSE slice(sortByScore(<<>>, collect(list, query)), maxResults)

\* String.prototype.slice(start, end) for start, end >= 0
stringSlice(text, start, end) ==
  SubSeq(text, start + 1, IF end < Len(text) THEN end ELSE Len(text))

Segment(text, highlight) == [text |-> text, highlight |-> highlight]

RECURSIVE highlightRanges(_, _, _, _)
\* for (const [start, end] of indices) { ... } and the remaining text
highlightRanges(text, indices, segments, lastIndex) ==
  IF indices = <<>>
  THEN IF lastIndex < Len(text)
       THEN Append(segments, Segment(stringSlice(text, lastIndex, Len(text)), FALSE))
       ELSE segments
  ELSE LET start == Head(indices)[1]
           end == Head(indices)[2]
           unmatched ==
             IF start > lastIndex
             THEN Append(segments, Segment(stringSlice(text, lastIndex, start), FALSE))
             ELSE segments
       IN highlightRanges(text, Tail(indices),
                          Append(unmatched, Segment(stringSlice(text, start, end + 1), TRUE)),
                          end + 1)

RECURSIVE highlightOnly(_, _)
highlightOnly(text, indices) ==
  IF indices = <<>> THEN <<>>
  ELSE <<Segment(stringSlice(text, Head(indices)[1], Head(indices)[2] + 1), TRUE)>>
         \o highlightOnly(text, Tail(indices))

\* a highlighter that emits the matched segments alone
highlightMatches_matchedOnly(text, indices) ==
  IF Len(indices) = 0 THEN <<Segment(text, FALSE)>>
  ELSE highlightOnly(text, indices)

highlightMatches(text, indices) ==
  IF Len(indices) = 0 THEN <<Segment(text, FALSE)>>
  ELSE highlightRanges(text, indices, <<>>, 0)

\* The inputs
searchExact == SearchCommand("exact", <<"a">>, None, None, FALSE, FALSE)
searchPrefix == SearchCommand("prefix", <<"a", "b">>, None, None, FALSE, FALSE)
searchRich ==
  SearchCommand("rich", <<"a", "b">>, Some(<<"a", "b">>), Some(<<<<"A", "b">>>>), FALSE, FALSE)
searchLater == SearchCommand("later", <<"b", " ", "A">>, Some(<<>>), Some(<<>>), FALSE, FALSE)
searchKeyword ==
  SearchCommand("keyword", <<"b">>, None, Some(<<<<"a">>, <<"b">>, <<"a">>>>), FALSE, FALSE)
\* another command with the fields of searchKeyword, so with its score
searchTwin ==
  SearchCommand("twin", <<"b">>, None, Some(<<<<"a">>, <<"b">>, <<"a">>>>), FALSE, FALSE)
searchHidden == SearchCommand("hidden", <<"A">>, None, None, TRUE, FALSE)
searchDisabled == SearchCommand("disabled", <<"a">>, None, None, FALSE, TRUE)

SearchCommands ==
  {searchExact, searchPrefix, searchRich, searchLater, searchKeyword, searchTwin,
   searchHidden, searchDisabled}

SearchQueries == {<<>>, <<" ">>, <<"a">>, <<"A">>, <<"a", "b">>, <<" ", "a">>}

\* the arrays searched hold each command once, as the values of the registry do
SearchLists ==
  {list \in UNION {[1..k -> SearchCommands] : k \in 0..MaxSearched} :
     \A i, j \in 1..Len(list) : list[i] = list[j] => i = j}

MatcherCalls ==
  {[op |-> "calculateMatchScore", arg |-> [query |-> q, target |-> t]] :
     q \in StringsUpTo(MaxQueryLen), t \in StringsUpTo(MaxTargetLen)}

SearchCalls ==
  {[op |-> "fuzzySearchCommands",
    arg |-> [commands |-> list, query |-> q, maxResults |-> n]] :
     list \in SearchLists, q \in SearchQueries, n \in 0..MaxLimit}

HighlightTexts == UNION {[1..k -> {"a", "b"}] : k \in 0..MaxTargetLen}

\* every pair of indices up to the text bound, valid as a range or not
Ranges == (0..MaxTargetLen) \X (0..MaxTargetLen)

\* the ranges of a call are listed by ascending start, each with start <= end;
\* they may still overlap or end past the text
HighlightCalls ==
  {[op |-> "highlightMatches", arg |-> [text |-> t, indices |-> r]] :
     t \in HighlightTexts,
     r \in {list \in UNION {[1..k -> Ranges] : k \in 0..MaxRanges} :
              \A i \in 1..Len(list) :
                /\ list[i][1] <= list[i][2]
                /\ i > 1 => list[i - 1][1] < list[i][1]}}

\* a caller holds the arguments of one call; the registry is not involved
InitSearch ==
  /\ commands = <<>>
  /\ plugins = <<>>
  /\ groups = <<>>
  /\ listeners = <<>>
  /\ cachedCommands = <<>>
  /\ cacheValid = FALSE
  /\ call \in MatcherCalls \cup SearchCalls \cup HighlightCalls
  /\ result = <<>>
  /\ events = <<>>
  /\ before = [commands |-> <<>>, plugins |-> <<>>, groups |-> <<>>, listeners |-> <<>>,
               cachedCommands |-> <<>>, cacheValid |-> FALSE]
  /\ calls = 0
  /\ state = InitialState
  /\ executing = <<>>

Returned(value) ==
  /\ calls = 0
  /\ calls' = 1
  /\ result' = value
  /\ UNCHANGED <<commands, plugins, groups, listeners, cachedCommands, cacheValid,
                 call, events, before, state, executing>>

CalculateMatchScore ==
  /\ call.op = "calculateMatchScore"
  /\ Returned(calculateMatchScore(call.arg.query, call.arg.target))

FuzzySearchCommands ==
  /\ call.op = "fuzzySearchCommands"
  /\ Returned(fuzzySearchCommands(call.arg.commands, call.arg.query, call.arg.maxResults))

HighlightMatches ==
  /\ call.op = "highlightMatches"
  /\ Returned(highlightMatches(call.arg.text, call.arg.indices))

NextSearch ==
  \/ CalculateMatchScore
  \/ FuzzySearchCommands
  \/ HighlightMatches

SpecSearch == InitSearch /\ [][NextSearch]_vars

\* ------------------------------------------------------------------------
\* C18 For a non-empty query the matcher returns a match exactly when the
\*     lower-cased query is a subsequence of the lower-cased target, and no
\*     match otherwise, in particular when the query is the longer one.
\* ------------------------------------------------------------------------
\* some strictly increasing choice of positions of t spells s
IsSubsequence(s, t) ==
  \E at \in [1..Len(s) -> 1..Len(t)] :
    /\ \A i \in 1..Len(s) : t[at[i]] = s[i]
    /\ \A i \in 1..Len(s) : \A j \in 1..Len(s) : i < j => at[i] < at[j]

MatcherFindsSubsequences ==
  call.op = "calculateMatchScore" /\ calls = 1 /\ call.arg.query # <<>> =>
    /\ result # None <=>
         IsSubsequence(toLowerCase(call.arg.query), toLowerCase(call.arg.target))
    /\ Len(call.arg.query) > Len(call.arg.target) => result = None

\* a match that has to skip a target character the greedy scan does not take
MatcherFindsSubsequencesWitness ==
  /\ call.op = "calculateMatchScore"
  /\ calls = 1
  /\ call.arg.query = <<"A", "b">>
  /\ call.arg.target = <<"a", " ", "b">>
  /\ result # None


\* Observations on a search
IsBlank(query) == \A i \in 1..Len(query) : query[i] = " "

EqualsIgnoringCase(s, t) == toLowerCase(s) = toLowerCase(t)

\* the texts of the searched fields of a command
FieldTexts(command) ==
  {command.title}
    \cup (IF command.description = None THEN {} ELSE {command.description[1]})
    \cup (IF command.keywords = None THEN {} ELSE Elements(command.keywords[1]))

\* ------------------------------------------------------------------------
\* C19 For a non-blank query q, an enabled, visible command whose title
\*     equals q case-insensitively is placed before every command none of
\*     whose fields (title, description, keyword) equals q.
\* ------------------------------------------------------------------------
ExactTitleRanksFirst ==
  call.op = "fuzzySearchCommands" /\ calls = 1 /\ ~IsBlank(call.arg.query) =>
    \A i \in 1..Len(call.arg.commands) : \A j \in 1..Len(call.arg.commands) :
      LET exact == call.arg.commands[i]
          other == call.arg.commands[j]
      IN /\ ~exact.hidden
         /\ ~exact.disabled
         /\ EqualsIgnoringCase(exact.title, call.arg.query)
         /\ \A text \in FieldTexts(other) : ~EqualsIgnoringCase(text, call.arg.query)
         => \A m \in 1..Len(result) :
              result[m].command = other =>
                \E k \in 1..(m - 1) : result[k].command = exact

\* ------------------------------------------------------------------------
\* C20 For a blank query (empty or white space only) fuzzySearchCommands
\*     returns the first maxResults commands of the input that are not
\*     hidden, in input order, each with score 0 and no matches; disabled
\*     commands are kept.
\* ------------------------------------------------------------------------
NotHidden(command) == ~command.hidden

SearchSkipsDisabledAndHidden ==
  call.op = "fuzzySearchCommands" /\ calls = 1 /\ ~IsBlank(call.arg.query) =>
    \A k \in 1..Len(result) :
      ~result[k].command.disabled /\ ~result[k].command.hidden

\* a query that equals the title of a disabled and of a hidden command of
\* the list, and something else is returned
SearchSkipsDisabledAndHiddenWitness ==
  /\ call.op = "fuzzySearchCommands"
  /\ calls = 1
  /\ ~IsBlank(call.arg.query)
  /\ \E i \in 1..Len(call.arg.commands) :
       /\ call.arg.commands[i].disabled
       /\ EqualsIgnoringCase(call.arg.commands[i].title, call.arg.query)
  /\ \E i \in 1..Len(call.arg.commands) :
       /\ call.arg.commands[i].hidden
       /\ EqualsIgnoringCase(call.arg.commands[i].title, call.arg.query)
  /\ result # <<>>

\* ------------------------------------------------------------------------
\* C22 For a non-blank query and maxResults >= 0 the result has exactly
\*     min(maxResults, number of matching enabled visible commands)
\*     entries, in non-increasing order of score, and no omitted matching
\*     command has a strictly higher score than a returned one.
\* ------------------------------------------------------------------------
\* some searched field of the command contains the query as a subsequence
Matches(command, query) ==
  \E text \in FieldTexts(command) :
    IsSubsequence(toLowerCase(query), toLowerCase(text))

\* the positions of the input that hold a matching enabled visible command
Candidates(list, query) ==
  {i \in 1..Len(list) :
     ~list[i].hidden /\ ~list[i].disabled /\ Matches(list[i], query)}

Occurrences(list, command) == Cardinality({i \in 1..Len(list) : list[i] = command})

ResultCommands == [k \in 1..Len(result) |-> result[k].command]

ResultIsTopScoring ==
  call.op = "fuzzySearchCommands" /\ calls = 1 /\ ~IsBlank(call.arg.query) =>
    LET list == call.arg.commands
        query == call.arg.query
        candidates == Candidates(list, query)
        Score(command) == matchCommand(command, query).totalScore
    IN /\ Len(result) = IF call.arg.maxResults < Cardinality(candidates)
                        THEN call.arg.maxResults ELSE Cardinality(candidates)
       /\ \A k \in 1..Len(result) :
            /\ \E i \in candidates : list[i] = result[k].command
            /\ result[k].score = Score(result[k].command)
            /\ \A m \in (k + 1)..Len(result) : ~RatLess(result[k].score, result[m].score)
       /\ \A i \in candidates :
            /\ Occurrences(ResultCommands, list[i]) <= Occurrences(list, list[i])
            /\ Occurrences(ResultCommands, list[i]) < Occurrences(list, list[i]) =>
                 \A k \in 1..Len(result) : ~RatLess(result[k].score, Score(list[i]))

\* the limit cuts the matches, and the best match was not the first of the
\* input
ResultIsTopScoringWitness ==
  /\ call.op = "fuzzySearchCommands"
  /\ calls = 1
  /\ ~IsBlank(call.arg.query)
  /\ Len(result) = 2
  /\ Cardinality(Candidates(call.arg.commands, call.arg.query)) = 3
  /\ RatLess(result[2].score, result[1].score)
  /\ call.arg.commands[1] \notin {result[1].command, result[2].command}

\* ------------------------------------------------------------------------
\* C23 For a text and a valid range list (ascending, non-overlapping, inside
\*     the text) the segments of highlightMatches concatenate to the text,
\*     the highlighted segments are the texts of the ranges in order, and
\*     every character is covered by exactly one segment.
\* ------------------------------------------------------------------------
ValidRanges(text, indices) ==
  /\ \A r \in 1..Len(indices) :
       0 <= indices[r][1] /\ indices[r][1] <= indices[r][2] /\ indices[r][2] < Len(text)
  /\ \A r \in 1..(Len(indices) - 1) : indices[r][2] < indices[r + 1][1]

RECURSIVE Concatenation(_)
Concatenation(segments) ==
  IF segments = <<>> THEN <<>>
  ELSE Head(segments).text \o Concatenation(Tail(segments))

IsHighlighted(segment) == segment.highlight

\* the index of the text at which segment k of the list begins
Offset(segments, k) == Len(Concatenation(SubSeq(segments, 1, k - 1)))

\* the segments of the list that cover index i of the text
Covering(segments, i) ==
  {k \in 1..Len(segments) :
     Offset(segments, k) <= i /\ i < Offset(segments, k) + Len(segments[k].text)}

HighlightCoversText ==
  call.op = "highlightMatches" /\ calls = 1
    /\ ValidRanges(call.arg.text, call.arg.indices) =>
    LET text == call.arg.text
        indices == call.arg.indices
        highlighted == SelectSeq(result, IsHighlighted)
    IN /\ Concatenation(result) = text
       /\ Len(highlighted) = Len(indices)
       /\ \A r \in 1..Len(indices) :
            highlighted[r].text = SubSeq(text, indices[r][1] + 1, indices[r][2] + 1)
       /\ \A i \in 0..(Len(text) - 1) : Cardinality(Covering(result, i)) = 1
       /\ \A i \in 0..(Len(text) - 1) : \A k \in Covering(result, i) :
            result[k].highlight <=>
              \E r \in 1..Len(indices) : indices[r][1] <= i /\ i <= indices[r][2]

\* two ranges with unmatched text between them
HighlightCoversTextWitness ==
  /\ call.op = "highlightMatches"
  /\ calls = 1
  /\ ValidRanges(call.arg.text, call.arg.indices)
  /\ Len(call.arg.indices) = 2
  /\ Len(result) = 3
  /\ ~result[2].highlight
  /\ result[1].text # result[3].text


\* ------------------------------------------------------------------------
\* C30 The index ranges of every match are coalesced and well-formed: each
\*     has 0 <= start <= end < target length, consecutive ranges leave at
\*     least one unmatched index between them, and together they cover as
\*     many indices as the query has characters.
\* ------------------------------------------------------------------------
RECURSIVE Covered(_)
\* the number of indices the ranges cover
Covered(indices) ==
  IF indices = <<>> THEN 0
  ELSE Head(indices)[2] - Head(indices)[1] + 1 + Covered(Tail(indices))

MatchIndicesAreCoalesced ==
  call.op = "calculateMatchScore" /\ calls = 1 /\ result # None =>
    LET indices == result[1].indices
    IN /\ \A r \in 1..Len(indices) :
            /\ 0 <= indices[r][1]
            /\ indices[r][1] <= indices[r][2]
            /\ indices[r][2] < Len(call.arg.target)
       /\ \A r \in 1..(Len(indices) - 1) : indices[r][2] + 1 < indices[r + 1][1]
       /\ Covered(indices) = Len(call.arg.query)
       /\ \A r \in 1..Len(indices) :
            \A i \in indices[r][1]..indices[r][2] :
              \E k \in 1..Len(call.arg.query) :
                toLowerCase(call.arg.target)[i + 1] = toLowerCase(call.arg.query)[k]

\* adjacent matched indices behind an unmatched one, merged into one range
MatchIndicesAreCoalescedWitness ==
  /\ call.op = "calculateMatchScore"
  /\ calls = 1
  /\ result # None
  /\ Len(call.arg.query) = 2
  /\ result[1].indices = <<<<1, 2>>>>


\* ------------------------------------------------------------------------
\* C29 registerGroup has no overwrite guard: when registerGroup(g2) meets a
\*     registered group g1 with the same id, the entries of g1 whose command
\*     ids are not in g2 stay in the registry next to those of g2, and a
\*     later unregisterGroup(id) removes only the keys of g2's command list,
\*     leaving those entries of g1 registered without a group record.
\* ------------------------------------------------------------------------
\* the group record registerGroup found under the id of its argument
Regrouped == MapGet(before.groups, call.arg.id)[1]

\* the keys of the overwritten record that the new record does not have
LeftOver == (KeysOf(Regrouped) \ KeysOf(call.arg)) \cap MapKeys(before.commands)

RegisterGroupHasNoOverwriteGuard ==
  call.op = "registerGroup" /\ MapHas(before.groups, call.arg.id) =>
    LET later == unregisterGroup(This, call.arg.id)
    IN /\ MapGet(groups, call.arg.id) = Some(call.arg)
       /\ Len(groups) = Len(before.groups)
       /\ \A key \in KeysOf(call.arg) : MapHas(commands, key)
       /\ \A key \in LeftOver : MapGet(commands, key) = MapGet(before.commands, key)
       /\ later.result = Boolean(TRUE)
       /\ MapKeys(later.commands) = MapKeys(commands) \ KeysOf(call.arg)
       /\ \A key \in LeftOver : MapGet(later.commands, key) = MapGet(before.commands, key)
       /\ ~MapHas(later.groups, call.arg.id)

\* a group of two commands was registered again under the same id with one
\* of them, and the entry of the other one is still there
RegisterGroupHasNoOverwriteGuardWitness ==
  /\ call.op = "registerGroup"
  /\ MapHas(before.groups, call.arg.id)
  /\ Len(Regrouped.commands) = 2
  /\ Len(call.arg.commands) = 1
  /\ LeftOver # {}
  /\ \A key \in LeftOver : MapHas(commands, key)


\* ------------------------------------------------------------------------
\* The command palette (hooks.ts, context.tsx, CommandPalette.tsx)
\* ------------------------------------------------------------------------
MaxExecuting == 1

\* maxResults: number = 50
DefaultMaxResults == 50

\* a Command as the palette uses it; parameters holds the parameter names
PaletteCommand(id, title, disabled, parameters) ==
  [id |-> id, title |-> title, category |-> Undefined, description |-> None,
   keywords |-> None, hidden |-> FALSE, disabled |-> disabled,
   parameters |-> parameters]

palHome == PaletteCommand(<<"h">>, <<"a">>, FALSE, <<>>)
palNew == PaletteCommand(<<"n">>, <<"a", "b">>, FALSE, <<"filename", "folder">>)
palDisabled == PaletteCommand(<<"d">>, <<"b">>, TRUE, <<>>)

testCommands == <<palHome, palNew, palDisabled>>

\* what the user can have in the input
PaletteQueries == {<<>>, <<"a">>, <<"b">>, <<" ">>}

\* KeyboardEvent
Key(key, shiftKey, metaKey, ctrlKey) ==
  [key |-> key, shiftKey |-> shiftKey, metaKey |-> metaKey, ctrlKey |-> ctrlKey]

KeyEvents ==
  {Key(key, FALSE, FALSE, FALSE) :
     key \in {"ArrowDown", "ArrowUp", "Enter", "Escape", "Tab", "Backspace", "Home", "End"}}
    \cup {Key("Tab", TRUE, FALSE, FALSE), Key("K", TRUE, TRUE, FALSE)}
    \cup {Key("k", FALSE, metaKey, ctrlKey) : metaKey \in BOOLEAN, ctrlKey \in BOOLEAN}

\* how a call of command.action ends: it returns, throws, or returns a
\* promise that is fulfilled or rejected later
SyncOutcomes == {"returns", "throws"}
AsyncOutcomes == {"resolves", "rejects"}

\* the palette as the handlers of one event see and change it
Palette == [state |-> state, executing |-> executing, events |-> <<>>, result |-> FALSE]

\* useCommandSearch(useCommands(), state.query)
Results(map, query) ==
  fuzzySearchCommands(MapValues(map), query, DefaultMaxResults)

announce(p, message) ==
  [p EXCEPT !.events = Append(@, [kind |-> "announce", message |-> message])]

open(p) ==
  [p EXCEPT !.state = [@ EXCEPT !.isOpen = TRUE, !.query = <<>>, !.selectedIndex = 0]]

close(p) == [p EXCEPT !.state = InitialState]

toggle(p) == IF p.state.isOpen THEN close(p) ELSE open(p)

setQuery(p, query) ==
  [p EXCEPT !.state = [@ EXCEPT !.query = query, !.selectedIndex = 0]]

setSelectedIndex(p, index) ==
  [p EXCEPT !.state = [@ EXCEPT !.selectedIndex = index]]

enterParameterMode(p, command) ==
  IF Len(command.parameters) = 0 THEN [p EXCEPT !.result = FALSE]
  ELSE [p EXCEPT !.result = TRUE,
                 !.state = [@ EXCEPT !.parameterMode = TRUE,
                                     !.currentCommand = Some(command),
                                     !.parameterValues = <<>>,
                                     !.currentParameterIndex = 0,
                                     !.query = <<>>]]

exitParameterMode(p) ==
  [p EXCEPT !.state = [@ EXCEPT !.parameterMode = FALSE,
                                !.currentCommand = None,
                                !.parameterValues = <<>>,
                                !.currentParameterIndex = 0,
                                !.query = <<>>]]

\* parameterValues is an object: a Map from parameter names to values
setParameterValue(p, name, value) ==
  [p EXCEPT !.state = [@ EXCEPT !.parameterValues = MapSet(@, name, value)]]

nextParameter(p) ==
  IF p.state.currentCommand = None THEN p
  ELSE LET nextIndex == p.state.currentParameterIndex + 1
       IN IF nextIndex >= Len(p.state.currentCommand[1].parameters) THEN p
          ELSE [p EXCEPT !.state = [@ EXCEPT !.currentParameterIndex = nextIndex,
                                             !.query = <<>>]]

previousParameter(p) ==
  IF p.state.currentParameterIndex <= 0
  THEN [p EXCEPT !.state = [@ EXCEPT !.parameterMode = FALSE,
                                     !.currentCommand = None,
                                     !.parameterValues = <<>>,
                                     !.currentParameterIndex = 0]]
  ELSE [p EXCEPT !.state = [@ EXCEPT !.currentParameterIndex = @ - 1, !.query = <<>>]]

ActionEvent(command, params) == [kind |-> "action", command |-> command, params |-> params]
ErrorEvent(command) == [kind |-> "console.error", command |-> command.id]

\* executeCommand up to the point where it waits for the promise of the action
executeCommand(p, command, params, outcome) ==
  LET invoked == [p EXCEPT !.events = Append(@, ActionEvent(command, params))]
  IN CASE outcome = "returns" -> close(invoked)
       [] outcome = "throws" ->
            [invoked EXCEPT !.events = Append(@, ErrorEvent(command))]
       [] OTHER ->
            [invoked EXCEPT
               !.executing = Append(@, [command |-> command, outcome |-> outcome])]

\* the list without its element i
removeAt(list, i) == SubSeq(list, 1, i - 1) \o SubSeq(list, i + 1, Len(list))

\* settling that closes the palette after a rejection as well
settle_closesAlways(p, i) ==
  LET execution == p.executing[i]
      settled == [p EXCEPT !.executing = removeAt(@, i)]
  IN IF execution.outcome = "resolves" THEN close(settled)
     ELSE close([settled EXCEPT !.events = Append(@, ErrorEvent(execution.command))])

\* executeCommand from the point where the promise of action i settles
settle(p, i) ==
  LET execution == p.executing[i]
      settled == [p EXCEPT !.executing = removeAt(@, i)]
  IN IF execution.outcome = "resolves" THEN close(settled)
     ELSE [settled EXCEPT !.events = Append(@, ErrorEvent(execution.command))]

handleCommandSelect(p, command, outcome) ==
  LET entered == enterParameterMode(p, command)
  IN IF Len(command.parameters) # 0 /\ entered.result
     THEN announce(entered, "Enter parameters")
     ELSE announce(executeCommand(p, command, <<>>, outcome), "Executing")

handleConfirm(p, results, outcome) ==
  IF p.state.parameterMode /\ p.state.currentCommand # None
  THEN LET params == p.state.currentCommand[1].parameters
       IN IF p.state.currentParameterIndex < Len(params) - 1
          THEN announce(p, "Parameter set")
          ELSE announce(executeCommand(p, p.state.currentCommand[1],
                                       p.state.parameterValues, outcome), "Executing")
  ELSE IF 0 <= p.state.selectedIndex /\ p.state.selectedIndex < Len(results)
  THEN handleCommandSelect(p, results[p.state.selectedIndex + 1].command, outcome)
  ELSE p

\* a handleBack that stays on the first parameter
handleBack_staysInParameterMode(p) ==
  IF p.state.parameterMode
  THEN IF p.state.currentParameterIndex > 0 THEN previousParameter(p) ELSE p
  ELSE close(p)

handleBack(p) ==
  IF p.state.parameterMode
  THEN IF p.state.currentParameterIndex > 0 THEN previousParameter(p)
       ELSE announce(exitParameterMode(p), "Exited parameter mode")
  ELSE close(p)

\* keyboard navigation that stops at the first and at the last item
useKeyboardNavigation_clamps(p, results, event, outcome) ==
  LET itemCount == Len(results)
      selectedIndex == p.state.selectedIndex
      down == setSelectedIndex(p, IF selectedIndex < itemCount - 1
                                  THEN selectedIndex + 1 ELSE selectedIndex)
      up == setSelectedIndex(p, IF selectedIndex > 0 THEN selectedIndex - 1 ELSE 0)
  IN CASE event.key = "ArrowDown" -> down
       [] event.key = "ArrowUp" -> up
       [] event.key = "Enter" -> handleConfirm(p, results, outcome)
       [] event.key = "Escape" -> IF p.state.query = <<>> THEN handleBack(p) ELSE close(p)
       [] event.key = "Tab" -> IF event.shiftKey THEN up ELSE down
       [] event.key = "Backspace" -> IF p.state.query = <<>> THEN handleBack(p) ELSE p
       [] OTHER -> p

\* handleKeyDown of useKeyboardNavigation, as CommandPalette wires it:
\* onSelect = setSelectedIndex, onConfirm = handleConfirm, onClose = close,
\* onBack = handleBack when state.query === '' and undefined otherwise
useKeyboardNavigation(p, results, event, outcome) ==
  LET itemCount == Len(results)
      selectedIndex == p.state.selectedIndex
      down == setSelectedIndex(p, IF selectedIndex < itemCount - 1
                                  THEN selectedIndex + 1 ELSE 0)
      up == setSelectedIndex(p, IF selectedIndex > 0
                                THEN selectedIndex - 1 ELSE itemCount - 1)
  IN CASE event.key = "ArrowDown" -> down
       [] event.key = "ArrowUp" -> up
       [] event.key = "Enter" -> handleConfirm(p, results, outcome)
       [] event.key = "Escape" -> IF p.state.query = <<>> THEN handleBack(p) ELSE close(p)
       [] event.key = "Tab" -> IF event.shiftKey THEN up ELSE down
       [] event.key = "Backspace" -> IF p.state.query = <<>> THEN handleBack(p) ELSE p
       [] OTHER -> p

\* handleInputKeyDown of the search input
handleInputKeyDown(p, results, event) ==
  CASE event.key = "Home" -> setSelectedIndex(p, 0)
    [] event.key = "End" ->
         setSelectedIndex(p, IF Len(results) - 1 > 0 THEN Len(results) - 1 ELSE 0)
    [] OTHER -> p

\* the shortcuts useCommandPalette registers; an absent modifier is false
Shortcut(key, metaKey, ctrlKey) == [key |-> key, metaKey |-> metaKey, ctrlKey |-> ctrlKey]
metaShortcut == Shortcut("k", TRUE, FALSE)
ctrlShortcut == Shortcut("k", FALSE, TRUE)

\* String.prototype.toLowerCase on the names of keys
keyToLowerCase(key) == IF key = "K" THEN "k" ELSE key

\* handleKeyDown of useGlobalKeyboard with onTrigger = toggle
useGlobalKeyboard(shortcut, p, event) ==
  LET matchesMeta == IF shortcut.metaKey THEN event.metaKey ELSE TRUE
      matchesCtrl == IF shortcut.ctrlKey THEN event.ctrlKey ELSE TRUE
      matchesKey == keyToLowerCase(event.key) = keyToLowerCase(shortcut.key)
  IN IF matchesKey /\ matchesMeta /\ matchesCtrl THEN toggle(p) ELSE p

\* one keydown event: the handler of the input and the navigation handler
\* exist while the palette is open, the two shortcut handlers always; the
\* keys they act on are disjoint, so each sees the state of the last render
keydown(p, results, event, outcome) ==
  LET typed == IF p.state.isOpen THEN handleInputKeyDown(p, results, event) ELSE p
      navigated == IF p.state.isOpen
                   THEN useKeyboardNavigation(typed, results, event, outcome)
                   ELSE typed
  IN useGlobalKeyboard(ctrlShortcut,
                       useGlobalKeyboard(metaShortcut, navigated, event), event)

\* the provider and the palette are mounted: useCommands has subscribed and
\* read the commands once
InitPalette ==
  /\ commands = <<>>
  /\ plugins = <<>>
  /\ groups = <<>>
  /\ listeners = <<"useCommands">>
  /\ cachedCommands = <<>>
  /\ cacheValid = TRUE
  /\ call = [op |-> "mount"]
  /\ result = Void
  /\ events = <<>>
  /\ before = [state |-> InitialState, commands |-> <<>>, executing |-> <<>>]
  /\ calls = 0
  /\ state = InitialState
  /\ executing = <<>>

\* the event `op(arg)` was handled and left the palette as `after`
Dispatched(op, arg, after) ==
  /\ call' = [op |-> op, arg |-> arg]
  /\ state' = after.state
  /\ executing' = after.executing
  /\ events' = after.events
  /\ before' = [state |-> state, commands |-> commands, executing |-> executing]
  /\ UNCHANGED <<commands, plugins, groups, listeners, cachedCommands, cacheValid,
                 result, calls>>

\* the outcomes an action invoked now can have
Outcomes ==
  SyncOutcomes \cup
    (IF Len(executing) < MaxExecuting THEN AsyncOutcomes ELSE {})

\* only Enter can invoke an action
KeyDown ==
  \E results \in {Results(commands, state.query)} :
    \E event \in KeyEvents :
      \E outcome \in IF event.key = "Enter" THEN Outcomes ELSE {"returns"} :
        Dispatched("keydown", event, keydown(Palette, results, event, outcome))

\* handleInputChange
InputChange ==
  /\ state.isOpen
  /\ \E query \in PaletteQueries :
       Dispatched("change", query, setQuery(Palette, query))

\* onMouseEnter of an item of the list
MouseEnter ==
  /\ state.isOpen
  /\ ~state.parameterMode
  /\ \E results \in {Results(commands, state.query)} :
       \E index \in 0..(Len(results) - 1) :
         Dispatched("mouseenter", index, setSelectedIndex(Palette, index))

\* onClick of an item; a disabled item has pointer-events-none
Click ==
  /\ state.isOpen
  /\ ~state.parameterMode
  /\ \E results \in {Results(commands, state.query)} :
       \E index \in 0..(Len(results) - 1) :
         \E command \in {results[index + 1].command} :
           \E outcome \in Outcomes :
             /\ ~command.disabled
             /\ Dispatched("click", index,
                           handleCommandSelect(Palette, command, outcome))

\* onClick of the backdrop
BackdropClick ==
  /\ state.isOpen
  /\ Dispatched("backdrop", <<>>, close(Palette))

\* onClick of the Back button, shown in parameter mode
BackClick ==
  /\ state.isOpen
  /\ state.parameterMode
  /\ Dispatched("back", <<>>, handleBack(Palette))

\* a consumer of the context calls open(), as CommandTrigger does
Open ==
  Dispatched("open", <<>>, open(Palette))

\* a consumer of the context calls nextParameter()
NextParameter ==
  /\ state.parameterMode
  /\ Dispatched("nextParameter", <<>>, nextParameter(Palette))

\* the promise of an action settles
Settle ==
  \E i \in 1..Len(executing) :
    Dispatched("settle", executing[i], settle(Palette, i))

\* commandRegistry.registerCommands(testCommands) on the empty registry
RegisterTestCommands ==
  /\ commands = <<>>
  /\ Called("registerCommands", testCommands, registerCommands(This, testCommands))

\* a command is unregistered while the palette is mounted
UnregisterTestCommand ==
  \E i \in 1..Len(commands) :
    Called("unregisterCommand", commands[i].key, unregisterCommand(This, commands[i].key))

NextPalette ==
  \/ KeyDown
  \/ InputChange
  \/ MouseEnter
  \/ Click
  \/ BackdropClick
  \/ BackClick
  \/ Open
  \/ NextParameter
  \/ Settle
  \/ RegisterTestCommands
  \/ UnregisterTestCommand

SpecPalette == InitPalette /\ [][NextPalette]_vars


\* Observations on the last event of the palette
\* the result list the handlers of the last event saw
ResultsBefore == Results(before.commands, before.state.query)

ActionsInvoked == {e \in 1..Len(events) : events[e].kind = "action"}

ErrorsLogged == {e \in 1..Len(events) : events[e].kind = "console.error"}

\* ------------------------------------------------------------------------
\* C24 Selection navigation wraps: with at least one result, ArrowDown or
\*     Tab on the last item selects the first item, ArrowUp or Shift+Tab on
\*     the first item selects the last one, and on every other item they
\*     move the selection by exactly one; nothing else of the state changes.
\* ------------------------------------------------------------------------
SelectionWraps ==
  call.op = "keydown" /\ call.arg.key \in {"ArrowDown", "ArrowUp", "Tab"}
    /\ before.state.isOpen =>
    LET itemCount == Len(ResultsBefore)
        selectedIndex == before.state.selectedIndex
        forward == call.arg.key = "ArrowDown" \/ (call.arg.key = "Tab" /\ ~call.arg.shiftKey)
    IN itemCount >= 1 /\ 0 <= selectedIndex /\ selectedIndex < itemCount =>
         /\ forward =>
              state.selectedIndex =
                IF selectedIndex = itemCount - 1 THEN 0 ELSE selectedIndex + 1
         /\ ~forward =>
              state.selectedIndex =
                IF selectedIndex = 0 THEN itemCount - 1 ELSE selectedIndex - 1
         /\ state = [before.state EXCEPT !.selectedIndex = state.selectedIndex]

\* Shift+Tab on the first of three items has selected the last one
SelectionWrapsWitness ==
  /\ call.op = "keydown"
  /\ call.arg.key = "Tab"
  /\ call.arg.shiftKey
  /\ before.state.isOpen
  /\ Len(ResultsBefore) = 3
  /\ before.state.selectedIndex = 0
  /\ state.selectedIndex = 2

\* ------------------------------------------------------------------------
\* C25 From every state in which the palette is open, pressing Escape again
\*     and again closes it after at most currentParameterIndex + 2 presses,
\*     and a closed palette can be opened again.
\* ------------------------------------------------------------------------
Escape == Key("Escape", FALSE, FALSE, FALSE)

RECURSIVE pressEscape(_, _, _)
\* the palette after up to n presses of Escape, stopping when it is closed
pressEscape(p, map, n) ==
  IF n = 0 \/ ~p.state.isOpen THEN p
  ELSE pressEscape(keydown(p, Results(map, p.state.query), Escape, "returns"), map, n - 1)

\* the number of presses of Escape a palette state needs to close
EscapesLeft(st) ==
  IF ~st.isOpen THEN 0
  ELSE IF st.query # <<>> THEN 1
  ELSE IF st.parameterMode THEN st.currentParameterIndex + 2
  ELSE 1

EscapeAlwaysCloses ==
  /\ state.isOpen =>
       ~pressEscape(Palette, commands, state.currentParameterIndex + 2).state.isOpen
  /\ call.op = "keydown" /\ call.arg = Escape /\ before.state.isOpen =>
       EscapesLeft(state) < EscapesLeft(before.state)
  /\ ~state.isOpen =>
       /\ open(Palette).state.isOpen
       /\ keydown(Palette, Results(commands, state.query),
                  Key("k", FALSE, TRUE, FALSE), "returns").state.isOpen

\* Escape on the second parameter with an empty input went back one
\* parameter and left the palette open
EscapeAlwaysClosesWitness ==
  /\ call.op = "keydown"
  /\ call.arg = Escape
  /\ before.state.parameterMode
  /\ before.state.currentParameterIndex = 1
  /\ before.state.query = <<>>
  /\ state.isOpen
  /\ state.currentParameterIndex = 0

\* ------------------------------------------------------------------------
\* C26 executeCommand closes the palette (the state becomes the initial
\*     closed state) when the action completes successfully; when the action
\*     throws or its promise is rejected, the error is logged and the
\*     palette state is left as it was.
\* ------------------------------------------------------------------------
ExecuteCommandClosesOnSuccess ==
  /\ call.op = "settle" =>
       /\ Len(executing) = Len(before.executing) - 1
       /\ call.arg.outcome = "resolves" => state = InitialState /\ ErrorsLogged = {}
       /\ call.arg.outcome = "rejects" =>
            /\ state = before.state
            /\ \E e \in ErrorsLogged : events[e] = ErrorEvent(call.arg.command)
  /\ call.op \in {"keydown", "click"} /\ ActionsInvoked # {} =>
       /\ Cardinality(ActionsInvoked) = 1
       /\ ErrorsLogged # {} => state = before.state /\ executing = before.executing
       /\ ErrorsLogged = {} /\ executing = before.executing => state = InitialState
       /\ executing # before.executing => state = before.state

\* the promise of an action was rejected while the palette was open with a
\* query
ExecuteCommandClosesOnSuccessWitness ==
  /\ call.op = "settle"
  /\ call.arg.outcome = "rejects"
  /\ state.isOpen
  /\ state.query # <<>>

\* ------------------------------------------------------------------------
\* C27 A keydown of 'k' with the meta key or the ctrl key held opens the
\*     closed palette and closes the open one, for every combination of
\*     modifiers in which at least one of the two is held.
\* ------------------------------------------------------------------------
ShortcutTogglesOnce ==
  call.op = "keydown" /\ keyToLowerCase(call.arg.key) = "k"
    /\ (call.arg.metaKey \/ call.arg.ctrlKey) =>
    state.isOpen = ~before.state.isOpen

\* ------------------------------------------------------------------------
\* C28 No sequence of query changes, selection moves and Enter presses in
\*     the open palette invokes the action of a command with disabled:true.
\* ------------------------------------------------------------------------
DisabledCommandsAreNotExecuted ==
  \A e \in ActionsInvoked : ~events[e].command.disabled


\* ------------------------------------------------------------------------
\* C31 For a non-blank query, two entries of the result with equal score
\*     stand in the order their commands have in the input list.
\* ------------------------------------------------------------------------
\* the position of the command in the searched list, 0 when it is absent
PositionOf(list, command) ==
  IF \E i \in 1..Len(list) : list[i] = command
  THEN CHOOSE i \in 1..Len(list) :
         list[i] = command /\ \A j \in 1..(i - 1) : list[j] # command
  ELSE 0

SortIsStable ==
  call.op = "fuzzySearchCommands" /\ calls = 1 /\ ~IsBlank(call.arg.query) =>
    \A k \in 1..Len(result) : \A m \in (k + 1)..Len(result) :
      result[k].score = result[m].score =>
        /\ PositionOf(call.arg.commands, result[k].command) > 0
        /\ PositionOf(call.arg.commands, result[k].command)
             < PositionOf(call.arg.commands, result[m].command)

\* two entries tie, and a command of another score stood between them in the
\* input
SortIsStableWitness ==
  /\ call.op = "fuzzySearchCommands"
  /\ calls = 1
  /\ ~IsBlank(call.arg.query)
  /\ Len(result) = 3
  /\ \E k \in 1..2 :
       /\ result[k].score = result[k + 1].score
       /\ PositionOf(call.arg.commands, result[k].command) = 1
       /\ PositionOf(call.arg.commands, result[k + 1].command) = 3


\* ------------------------------------------------------------------------
\* C32 For a non-blank query and a limit that cuts nothing, an enabled
\*     visible command is in the result exactly when its title, its
\*     description or one of its keywords matches; its score is 3 x the
\*     title score + 1.5 x the description score + 2 x the score of every
\*     matching keyword, and its matches are the descriptors of the matching
\*     fields in the order title, description, keywords.
\* ------------------------------------------------------------------------
\* the descriptor of the field when it matches, as a list of 0 or 1 elements
Descriptor(query, value, key) ==
  LET found == calculateMatchScore(query, value)
  IN IF found = None THEN <<>>
     ELSE <<[indices |-> found[1].indices, value |-> value, key |-> key]>>

\* the score of the field times weight, 0 when the field does not match
Weighted(query, value, weight) ==
  LET found == calculateMatchScore(query, value)
  IN IF found = None THEN RatInt(0) ELSE RatMul(found[1].score, weight)

RECURSIVE KeywordDescriptors(_, _)
KeywordDescriptors(query, keywords) ==
  IF keywords = <<>> THEN <<>>
  ELSE Descriptor(query, Head(keywords), "keywords")
         \o KeywordDescriptors(query, Tail(keywords))

RECURSIVE KeywordScore(_, _)
KeywordScore(query, keywords) ==
  IF keywords = <<>> THEN RatInt(0)
  ELSE RatAdd(Weighted(query, Head(keywords), RatInt(2)),
              KeywordScore(query, Tail(keywords)))

\* the keywords of a command, none when the field is absent
KeywordsOf(command) == IF command.keywords = None THEN <<>> ELSE command.keywords[1]

ExpectedMatches(command, query) ==
  Descriptor(query, command.title, "title")
    \o (IF command.description = None THEN <<>>
        ELSE Descriptor(query, command.description[1], "description"))
    \o KeywordDescriptors(query, KeywordsOf(command))

ExpectedScore(command, query) ==
  RatAdd(RatAdd(Weighted(query, command.title, RatInt(3)),
                IF command.description = None THEN RatInt(0)
                ELSE Weighted(query, command.description[1], Rat(3, 2))),
         KeywordScore(query, KeywordsOf(command)))

SearchScoresFields ==
  /\ call.op = "fuzzySearchCommands"
  /\ calls = 1
  /\ ~IsBlank(call.arg.query)
  /\ call.arg.maxResults >= Len(call.arg.commands)
  => \A i \in 1..Len(call.arg.commands) :
       LET command == call.arg.commands[i]
           query == call.arg.query
       IN ~command.hidden /\ ~command.disabled =>
            /\ (\E k \in 1..Len(result) : result[k].command = command)
                 <=> ExpectedMatches(command, query) # <<>>
            /\ \A k \in 1..Len(result) :
                 result[k].command = command =>
                   /\ result[k].score = ExpectedScore(command, query)
                   /\ result[k].matches = ExpectedMatches(command, query)

\* a command is found through the same keyword listed twice and nothing
\* else, and another command of the list is found through three fields
SearchScoresFieldsWitness ==
  /\ call.op = "fuzzySearchCommands"
  /\ calls = 1
  /\ ~IsBlank(call.arg.query)
  /\ call.arg.maxResults >= Len(call.arg.commands)
  /\ \E k \in 1..Len(result) :
       /\ Len(result[k].matches) = 2
       /\ result[k].matches[1].key = "keywords"
       /\ result[k].matches[1] = result[k].matches[2]
       /\ result[k].score =
            RatMul(RatInt(4), calculateMatchScore(call.arg.query,
                                                  result[k].matches[1].value)[1].score)
  /\ \E k \in 1..Len(result) :
       /\ Len(result[k].matches) = 3
       /\ result[k].matches[2].key = "description"


\* ------------------------------------------------------------------------
\* C33 In parameter mode of a command with at least two parameters, Enter
\*     on a parameter that is not the last one moves to the next parameter:
\*     currentParameterIndex grows by one.
\* ------------------------------------------------------------------------
EnterAdvancesParameter ==
  /\ call.op = "keydown"
  /\ call.arg.key = "Enter"
  /\ before.state.isOpen
  /\ before.state.parameterMode
  /\ before.state.currentCommand # None
  => LET params == before.state.currentCommand[1].parameters
     IN before.state.currentParameterIndex < Len(params) - 1 =>
          state.currentParameterIndex = before.state.currentParameterIndex + 1


\* ------------------------------------------------------------------------
\* A subscriber that throws
\* ------------------------------------------------------------------------
\* the subscriber whose body is `throw new Error(...)`
Thrower == "l1"

\* the call ended with the error the listener threw
Exception(listener) == [kind |-> "exception", thrownBy |-> listener]

Threw(this) == this.result.kind = "exception"

RECURSIVE deliverThrowing_isolated(_, _, _)
\* a loop that catches what a listener throws and goes on with the next one
deliverThrowing_isolated(this, snapshot, i) ==
  IF i > Len(this.listeners) THEN Returning(this, Void)
  ELSE deliverThrowing_isolated(
         [this EXCEPT !.events = Append(@, NotifyEvent(this.listeners[i], snapshot))],
         snapshot, i + 1)

RECURSIVE deliverThrowing(_, _, _)
\* for (const listener of this.listeners) listener(commands): the loop has no
\* try, so the error of a listener leaves it
deliverThrowing(this, snapshot, i) ==
  IF i > Len(this.listeners) THEN Returning(this, Void)
  ELSE LET listener == this.listeners[i]
           invoked == [this EXCEPT !.events = Append(@, NotifyEvent(listener, snapshot))]
       IN IF listener = Thrower THEN Returning(invoked, Exception(listener))
          ELSE deliverThrowing(invoked, snapshot, i + 1)

notifyListenersThrowing(this) ==
  LET invalidated == [this EXCEPT !.cacheValid = FALSE]
      read == getAllCommands(invalidated)
  IN deliverThrowing(read, read.result, 1)

\* the statements after this.notifyListeners() run only if it returned
registerCommandThrowing(this, command) ==
  LET set == [this EXCEPT !.commands = MapSet(@, command.id, command)]
      notified == notifyListenersThrowing(set)
  IN IF Threw(notified) THEN notified
     ELSE Returning(notified, Closure("unregisterCommand", command.id))

registerCommandsThrowing(this, list) ==
  LET set == [this EXCEPT !.commands = setAll(@, list)]
      notified == notifyListenersThrowing(set)
  IN IF Threw(notified) THEN notified
     ELSE Returning(notified,
                    Closure("unregisterCommands", [i \in 1..Len(list) |-> list[i].id]))

unregisterCommandThrowing(this, id) ==
  LET deleted == MapHas(this.commands, id)
      after == [this EXCEPT !.commands = MapDelete(@, id)]
      notified == notifyListenersThrowing(after)
  IN IF ~deleted THEN Returning(after, Boolean(FALSE))
     ELSE IF Threw(notified) THEN notified
     ELSE Returning(notified, Boolean(TRUE))

ThrowingRegisterCommand ==
  \E command \in DirectCommands :
    Called("registerCommand", command, registerCommandThrowing(This, command))

ThrowingRegisterCommands ==
  \E list \in ListsUpTo(DirectCommands, MaxListLen) :
    Called("registerCommands", list, registerCommandsThrowing(This, list))

ThrowingUnregisterCommand ==
  \E id \in {c.id : c \in DirectCommands} :
    Called("unregisterCommand", id, unregisterCommandThrowing(This, id))

NextThrowing ==
  \/ Subscribe
  \/ Unsubscribe
  \/ ThrowingRegisterCommand
  \/ ThrowingRegisterCommands
  \/ ThrowingUnregisterCommand

SpecThrowing == Init /\ [][NextThrowing]_vars

\* ------------------------------------------------------------------------
\* C34 A subscriber that throws while it is notified ends the call that
\*     notified it: the call ends with the error, the subscribers after the
\*     thrower in subscription order are not invoked by the call, and the
\*     change the call made to the command map stays.
\* ------------------------------------------------------------------------
\* the command map the last call leaves when nothing is rolled back
Mutated ==
  CASE call.op = "registerCommand" -> MapSet(before.commands, call.arg.id, call.arg)
    [] call.op = "registerCommands" -> setAll(before.commands, call.arg)
    [] call.op = "unregisterCommand" -> MapDelete(before.commands, call.arg)

\* the subscribers up to and including the first one that throws
UpToThrower(set) ==
  IF SetHas(set, Thrower)
  THEN SubSeq(set, 1, CHOOSE i \in 1..Len(set) : set[i] = Thrower)
  ELSE set

Notified == [e \in 1..Len(events) |-> events[e].listener]

ThrowingSubscriberAborts ==
  call.op \in {"registerCommand", "registerCommands", "unregisterCommand"} =>
    /\ commands = Mutated
    /\ events # <<>> =>
         /\ Notified = UpToThrower(before.listeners)
         /\ (result.kind = "exception") <=> SetHas(before.listeners, Thrower)
         /\ \A e \in 1..Len(events) : events[e].snapshot = MapValues(Mutated)
    /\ events = <<>> =>
         \/ before.listeners = <<>> /\ result.kind # "exception"
         \/ call.op = "unregisterCommand" /\ result = Boolean(FALSE)

\* the thrower was subscribed first and another subscriber after it; the
\* call inserted a command and only the thrower was invoked
ThrowingSubscriberAbortsWitness ==
  /\ call.op = "registerCommand"
  /\ before.listeners = <<Thrower, "l2">>
  /\ result = Exception(Thrower)
  /\ Notified = <<Thrower>>
  /\ ~MapHas(before.commands, call.arg.id)
  /\ MapHas(commands, call.arg.id)


\* ------------------------------------------------------------------------
\* C35 Backspace on the empty input of the open palette changes nothing
\*     outside parameter mode; in parameter mode it steps back one parameter
\*     or, on the first parameter, leaves parameter mode.
\* ------------------------------------------------------------------------
BackspaceOnlyLeavesParameterMode ==
  /\ call.op = "keydown"
  /\ call.arg.key = "Backspace"
  /\ before.state.isOpen
  /\ before.state.query = <<>>
  => IF ~before.state.parameterMode
     THEN state = before.state
     ELSE /\ state.isOpen
          /\ IF before.state.currentParameterIndex > 0
             THEN /\ state.parameterMode
                  /\ state.currentParameterIndex = before.state.currentParameterIndex - 1
             ELSE ~state.parameterMode


\* ------------------------------------------------------------------------
\* C36 The function registerCommands(list) returns removes every id of the
\*     list that is present and leaves the other commands alone, one id at a
\*     time: each subscriber is notified once per removed id and sees the map
\*     after each single removal.
\* ------------------------------------------------------------------------
\* the map without the keys in ids
Without(map, ids) == SelectSeq(map, LAMBDA entry : entry.key \notin ids)

\* the notifications the last call made to the listener, in order
NotificationsOf(listener) ==
  SelectSeq(events, LAMBDA event : event.kind = "notify" /\ event.listener = listener)

UnregisterCallbackRemovesOneByOne ==
  call.op = "callback" /\ call.arg.op = "unregisterCommands" =>
    LET ids == call.arg.arg
        removed == {ids[j] : j \in 1..Len(ids)} \cap MapKeys(before.commands)
    IN /\ commands = Without(before.commands, removed)
       /\ \A l \in Elements(before.listeners) :
            LET seen == NotificationsOf(l)
            IN /\ Len(seen) = Cardinality(removed)
               /\ \A n \in 1..Len(seen) :
                    \E j \in 1..Len(ids) :
                      LET gone == {ids[k] : k \in 1..j}
                      IN /\ Cardinality(gone \cap removed) = n
                         /\ seen[n].snapshot = MapValues(Without(before.commands, gone))

\* two commands were removed under a subscriber, which saw the map with one
\* of them still in it
UnregisterCallbackRemovesOneByOneWitness ==
  /\ call.op = "callback"
  /\ call.arg.op = "unregisterCommands"
  /\ \E l \in Elements(before.listeners) :
       /\ Len(NotificationsOf(l)) = 2
       /\ \E i \in 1..Len(NotificationsOf(l)[1].snapshot) :
            NotificationsOf(l)[1].snapshot[i].id = call.arg.arg[2]


\* ------------------------------------------------------------------------
\* C37 While the palette is open selectedIndex designates an existing
\*     result: 0 <= selectedIndex < results.length when there is a result,
\*     and selectedIndex = 0 when there is none.
\* ------------------------------------------------------------------------
SelectedIndexIsValid ==
  state.isOpen =>
    LET itemCount == Len(Results(commands, state.query))
    IN IF itemCount > 0
       THEN 0 <= state.selectedIndex /\ state.selectedIndex < itemCount
       ELSE state.selectedIndex = 0


\* ------------------------------------------------------------------------
\* The functions of useCommandPalette, called by a consumer of the context
\* ------------------------------------------------------------------------
\* the names and values a consumer passes to setParameterValue
ParameterNames == {"filename", "folder"}
ParameterInputs == {"x"}

CallClose ==
  Dispatched("close", <<>>, close(Palette))

CallToggle ==
  Dispatched("toggle", <<>>, toggle(Palette))

CallSetQuery ==
  \E query \in PaletteQueries :
    Dispatched("setQuery", query, setQuery(Palette, query))

CallEnterParameterMode ==
  \E i \in 1..Len(testCommands) :
    Dispatched("enterParameterMode", testCommands[i],
               enterParameterMode(Palette, testCommands[i]))

CallExitParameterMode ==
  Dispatched("exitParameterMode", <<>>, exitParameterMode(Palette))

CallSetParameterValue ==
  \E name \in ParameterNames : \E value \in ParameterInputs :
    Dispatched("setParameterValue", [name |-> name, value |-> value],
               setParameterValue(Palette, name, value))

CallNextParameter ==
  Dispatched("nextParameter", <<>>, nextParameter(Palette))

CallPreviousParameter ==
  Dispatched("previousParameter", <<>>, previousParameter(Palette))

NextHook ==
  \/ Open
  \/ CallClose
  \/ CallToggle
  \/ CallSetQuery
  \/ CallEnterParameterMode
  \/ CallExitParameterMode
  \/ CallSetParameterValue
  \/ CallNextParameter
  \/ CallPreviousParameter

SpecHook == InitPalette /\ [][NextHook]_vars

\* ------------------------------------------------------------------------
\* C38 parameterMode is true exactly when currentCommand is not null; in
\*     parameter mode the current command has a parameter and
\*     0 <= currentParameterIndex < the number of its parameters; outside
\*     parameter mode parameterValues is empty and currentParameterIndex is
\*     0.
\* ------------------------------------------------------------------------
ParameterStateIsConsistent ==
  /\ state.parameterMode <=> state.currentCommand # None
  /\ state.parameterMode =>
       /\ Len(state.currentCommand[1].parameters) >= 1
       /\ 0 <= state.currentParameterIndex
       /\ state.currentParameterIndex < Len(state.currentCommand[1].parameters)
  /\ ~state.parameterMode =>
       /\ state.parameterValues = <<>>
       /\ state.currentParameterIndex = 0


\* ------------------------------------------------------------------------
\* C39 For a non-empty query that matches a target, highlightMatches on the
\*     target and the ranges the matcher returned gives segments whose
\*     concatenation is the target and whose highlighted segments,
\*     concatenated and lower-cased, are the lower-cased query.
\* ------------------------------------------------------------------------
\* the segments CommandItem renders for the match the last call returned
RenderedSegments == highlightMatches(call.arg.target, result[1].indices)

MatcherAndHighlighterCompose ==
  /\ call.op = "calculateMatchScore"
  /\ calls = 1
  /\ call.arg.query # <<>>
  /\ result # None
  => /\ Concatenation(RenderedSegments) = call.arg.target
     /\ toLowerCase(Concatenation(SelectSeq(RenderedSegments, IsHighlighted)))
          = toLowerCase(call.arg.query)

\* the match has two ranges with a gap between them, and the query differs
\* from the highlighted text in case
MatcherAndHighlighterComposeWitness ==
  /\ call.op = "calculateMatchScore"
  /\ calls = 1
  /\ result # None
  /\ Len(result[1].indices) = 2
  /\ Len(RenderedSegments) = 3
  /\ Concatenation(SelectSeq(RenderedSegments, IsHighlighted)) # call.arg.query


\* ------------------------------------------------------------------------
\* C40 Blankness is decided on the trimmed query, matching uses the query as
\*     given. A search with a non-blank query that starts or ends with a
\*     space returns only fields that hold the whole query, spaces included,
\*     as a subsequence, and a field matches q followed by a space exactly
\*     when it matches q and has a space after the end of the greedy match
\*     of q.
\* ------------------------------------------------------------------------
HasOuterSpace(query) == ~IsBlank(query) /\ trim(query) # query

HoldsQuery(query, text) == IsSubsequence(toLowerCase(query), toLowerCase(text))

\* the query of the call without its last character
QueryStem == SubSeq(call.arg.query, 1, Len(call.arg.query) - 1)

\* the target index at which the greedy match of the stem ends
StemEnd ==
  LET indices == calculateMatchScore(QueryStem, call.arg.target)[1].indices
  IN indices[Len(indices)][2]

UntrimmedQueryIsMatched ==
  /\ call.op = "fuzzySearchCommands" /\ calls = 1 /\ HasOuterSpace(call.arg.query) =>
       /\ \A i \in 1..Len(result) :
            /\ result[i].matches # <<>>
            /\ \A k \in 1..Len(result[i].matches) :
                 HoldsQuery(call.arg.query, result[i].matches[k].value)
       /\ Len(result) < call.arg.maxResults =>
            \A j \in 1..Len(call.arg.commands) :
              LET command == call.arg.commands[j]
              IN /\ ~command.hidden
                 /\ ~command.disabled
                 /\ \E text \in FieldTexts(command) : HoldsQuery(call.arg.query, text)
                 => \E i \in 1..Len(result) : result[i].command = command
  /\ /\ call.op = "calculateMatchScore"
     /\ calls = 1
     /\ Len(call.arg.query) > 1
     /\ call.arg.query[Len(call.arg.query)] = " "
     /\ ~IsBlank(QueryStem)
     => (result # None <=>
           /\ calculateMatchScore(QueryStem, call.arg.target) # None
           /\ \E i \in 0..(Len(call.arg.target) - 1) :
                i > StemEnd /\ call.arg.target[i + 1] = " ")

\* a search with a leading space that leaves out a command matching the
\* trimmed query and returns one matching the query as given
UntrimmedQueryIsMatchedWitness ==
  /\ call.op = "fuzzySearchCommands"
  /\ calls = 1
  /\ HasOuterSpace(call.arg.query)
  /\ Len(result) = 1
  /\ Len(result) < call.arg.maxResults
  /\ \E j \in 1..Len(call.arg.commands) :
       LET command == call.arg.commands[j]
       IN /\ ~command.hidden
          /\ ~command.disabled
          /\ HoldsQuery(trim(call.arg.query), command.title)
          /\ \A i \in 1..Len(result) : result[i].command # command

====
